---- MODULE Spec2Model ----
(***************************************************************************)
(* Class relationship verifier of runtime/bcverify/classrelationships.c:   *)
(* the per-pass snippet table, the per-classloader relationship table and  *)
(* node pool, and the validation run when a class finishes loading.        *)
(***************************************************************************)
EXTENDS Integers, Sequences, FiniteSets, TLC

\* ---------------------------------------------------------------- bounds
\* most snippets one verification pass holds in its snippet table
MaxSnippets == 2
\* number of operations (calls into the verifier, class loads) in a run
MaxOps == 5
\* an operation's failing allocation attempt is drawn from 0..MaxFailAt
\* (0: no attempt of the call fails)
MaxFailAt == 4
\* number of calls of a run in which an allocation fails
MaxAllocFailures == 1

\* ------------------------------------------------------------- constants
J9RELATIONSHIP_JAVA_LANG_THROWABLE_STRING == "java/lang/Throwable"
J9RELATIONSHIP_MUST_BE_INTERFACE == "MUST_BE_INTERFACE"
J9RELATIONSHIP_PARENT_CLASS_IS_THROWABLE == "PARENT_CLASS_IS_THROWABLE"
BCV_SUCCESS == "BCV_SUCCESS"
BCV_ERR_INTERNAL_ERROR == "BCV_ERR_INTERNAL_ERROR"
BCV_ERR_INSUFFICIENT_MEMORY == "BCV_ERR_INSUFFICIENT_MEMORY"
\* a failed Assert_RTV_true ends the VM
ASSERTION_FAILURE == "Assert_RTV_true"
\* a NULL J9Class pointer; class pointers are modelled by the class name
NULL == "NULL"

\* The verifier's class name list of one pass: index -> name.  Two names of
\* equal length, one longer name, and java/lang/Throwable.
ClassNameList == <<"A", "B", "CC", J9RELATIONSHIP_JAVA_LANG_THROWABLE_STRING>>
ClassNameIndices == 1..Len(ClassNameList)
ClassNames == {ClassNameList[i] : i \in ClassNameIndices}
\* names of the classes that load while the model runs
LoadableNames == ClassNames \ {J9RELATIONSHIP_JAVA_LANG_THROWABLE_STRING}
\* The (child index, parent index) pairs the verifier asks to record: the
\* children are "A" and "CC", so that one parent list can hold two names of
\* equal length and another two names of different lengths.
SnippetPairs ==
    {<<c, p>> : c \in {1, 3}, p \in ClassNameIndices} \ {<<1, 1>>, <<3, 3>>}

getNameAndLengthFromClassNameList(classNameIndex) == ClassNameList[classNameIndex]

\* J9UTF8_DATA_EQUALS comparing the lengths only
J9UTF8_DATA_EQUALS_LengthOnly(name1, name2) == Len(name1) = Len(name2)

\* J9UTF8_DATA_EQUALS(data1, length1, data2, length2): equal lengths and
\* equal bytes
J9UTF8_DATA_EQUALS(name1, name2) == Len(name1) = Len(name2) /\ name1 = name2

VARIABLES
    classTable,                          \* the loader's loaded classes (hashClassTableAt)
    classRelationshipsHashTable,         \* classLoader->classRelationshipsHashTable
    classRelationshipsPool,              \* classLoader->classRelationshipsPool
    classRelationshipSnippetsHashTable,  \* verifyData->classRelationshipSnippetsHashTable
    alive,                               \* the loader has not been torn down
    ops,                                 \* operations performed so far
    last,                                \* the last call: arguments and results
    deferred,                            \* snippets process has handed to record
    failureReported,                     \* some process or validate call failed
    allocFailures,                       \* calls in which an allocation failed so far
    sharedCache,                         \* the shared cache's data for the class verified
    snippetsDataDescriptor,              \* the descriptor fetch has filled for the pass
    threads,                             \* the passes of the threads verifying at once
    romClass,                            \* the ROM class whose members are looked up
    annotationCall,                      \* the last runtime annotation lookup
    utf8Area                             \* the class name section of a data buffer: sized and written

vars == <<classTable, classRelationshipsHashTable, classRelationshipsPool,
          classRelationshipSnippetsHashTable, alive, ops, last, deferred,
          failureReported, allocFailures, sharedCache, snippetsDataDescriptor,
          threads, romClass, annotationCall, utf8Area>>

\* ------------------------------------------------- the loaded-class view
\* hashClassTableAt(classLoader, name, length): NULL or the loaded class
hashClassTableAt(ct, className) ==
    IF ct[className].kind = "unloaded" THEN NULL ELSE className

J9ROMCLASS_IS_INTERFACE(ct, class) == ct[class].kind = "interface"

\* isSameOrSuperClassOf(superClass, baseClass)
isSameOrSuperClassOf(ct, superClass, baseClass) ==
    superClass = baseClass \/ superClass \in ct[baseClass].supers

\* ------------------------------------------------ the relationship store
\* A store value st is [table |-> [allocated, entries], pool |-> [allocated,
\* numElements]]; entries maps a class name to [flags, root], root being
\* the linked list of parent class names from head to tail.

\* the a+1-th allocation attempt of a call fails when it is attempt f
AllocFails(a, f) == a + 1 = f

NoTable == [allocated |-> FALSE, entries |-> <<>>]
NoPool == [allocated |-> FALSE, numElements |-> 0]

allocateClassRelationshipTableAndPool(st, a, f) ==
    IF AllocFails(a, f)
    THEN [st |-> st, a |-> a + 1, result |-> 1]
    ELSE LET withTable == [st EXCEPT !.table = [allocated |-> TRUE, entries |-> <<>>]]
         IN  IF AllocFails(a + 1, f)
             THEN [st |-> withTable, a |-> a + 2, result |-> 1]
             ELSE [st |-> [withTable EXCEPT !.pool = [allocated |-> TRUE, numElements |-> 0]],
                   a |-> a + 2, result |-> 0]

\* <<>> for NULL, <<entry>> for the entry found
findClassRelationship(st, className) ==
    IF st.table.allocated /\ className \in DOMAIN st.table.entries
    THEN <<st.table.entries[className]>>
    ELSE <<>>

hashTableAdd(entries, className, entry) ==
    [n \in DOMAIN entries \cup {className} |->
        IF n = className THEN entry ELSE entries[n]]

hashTableRemove(entries, className) ==
    [n \in DOMAIN entries \ {className} |-> entries[n]]

\* allocateClassRelationshipNode leaving the element in the pool when the
\* allocation of the name fails
allocateClassRelationshipNode_KeepsElement(st, className, a, f) ==
    IF ~st.pool.allocated
    THEN [st |-> st, a |-> a, node |-> <<>>]
    ELSE IF AllocFails(a, f)
    THEN [st |-> st, a |-> a + 1, node |-> <<>>]
    ELSE IF AllocFails(a + 1, f)
    THEN [st |-> [st EXCEPT !.pool.numElements = @ + 1], a |-> a + 2, node |-> <<>>]
    ELSE [st |-> [st EXCEPT !.pool.numElements = @ + 1],
          a |-> a + 2, node |-> <<className>>]

\* pool_newElement and the copy of the name; node is <<>> for NULL
allocateClassRelationshipNode(st, className, a, f) ==
    IF ~st.pool.allocated
    THEN [st |-> st, a |-> a, node |-> <<>>]
    ELSE IF AllocFails(a, f)
    THEN [st |-> st, a |-> a + 1, node |-> <<>>]
    ELSE IF AllocFails(a + 1, f)
    THEN [st |-> st, a |-> a + 2, node |-> <<>>]
    ELSE [st |-> [st EXCEPT !.pool.numElements = @ + 1],
          a |-> a + 2, node |-> <<className>>]

\* walkParents stopping at a node whose name is as long as the new name
RECURSIVE walkParents_GreaterOrEqual(_, _, _)
walkParents_GreaterOrEqual(root, walk, parentClassName) ==
    IF walk > Len(root)
    THEN [alreadyPresent |-> FALSE, addBefore |-> FALSE, walk |-> walk]
    ELSE IF Len(root[walk]) >= Len(parentClassName)
    THEN [alreadyPresent |-> FALSE, addBefore |-> TRUE, walk |-> walk]
    ELSE IF J9UTF8_DATA_EQUALS(root[walk], parentClassName)
    THEN [alreadyPresent |-> TRUE, addBefore |-> FALSE, walk |-> walk]
    ELSE walkParents_GreaterOrEqual(root, walk + 1, parentClassName)

\* walkParents without the test for a node that holds the name already
RECURSIVE walkParents_NoDuplicateTest(_, _, _)
walkParents_NoDuplicateTest(root, walk, parentClassName) ==
    IF walk > Len(root)
    THEN [alreadyPresent |-> FALSE, addBefore |-> FALSE, walk |-> walk]
    ELSE IF Len(root[walk]) > Len(parentClassName)
    THEN [alreadyPresent |-> FALSE, addBefore |-> TRUE, walk |-> walk]
    ELSE walkParents_NoDuplicateTest(root, walk + 1, parentClassName)

\* the walk of j9bcv_recordClassRelationship over a non-empty parent list;
\* walk is the position of the node the loop stopped at
RECURSIVE walkParents(_, _, _)
walkParents(root, walk, parentClassName) ==
    IF walk > Len(root)
    THEN [alreadyPresent |-> FALSE, addBefore |-> FALSE, walk |-> walk]
    ELSE IF Len(root[walk]) > Len(parentClassName)
    THEN [alreadyPresent |-> FALSE, addBefore |-> TRUE, walk |-> walk]
    ELSE IF J9UTF8_DATA_EQUALS(root[walk], parentClassName)
    THEN [alreadyPresent |-> TRUE, addBefore |-> FALSE, walk |-> walk]
    ELSE walkParents(root, walk + 1, parentClassName)

J9_LINKED_LIST_ADD_LAST(root, node) == Append(root, node)

\* J9_LINKED_LIST_ADD_BEFORE linking the node after the tail
J9_LINKED_LIST_ADD_BEFORE_AtTail(root, walk, node) == Append(root, node)

\* J9_LINKED_LIST_ADD_BEFORE: the node is linked before the node at walk
J9_LINKED_LIST_ADD_BEFORE(root, walk, node) ==
    SubSeq(root, 1, walk - 1) \o <<node>> \o SubSeq(root, walk, Len(root))

\* recordParent giving java/lang/Throwable a node like any other parent
recordParent_ThrowableNode(st, childClassName, parentClassName, a, f) ==
    LET entry == st.table.entries[childClassName]
        oom == [st |-> st, a |-> a, reasonCode |-> BCV_ERR_INSUFFICIENT_MEMORY]
    IN
    IF entry.root = <<>>
    THEN LET n == allocateClassRelationshipNode(st, parentClassName, a, f)
         IN  IF n.node = <<>>
             THEN [oom EXCEPT !.st = n.st, !.a = n.a]
             ELSE [st |-> [n.st EXCEPT !.table.entries[childClassName].root =
                                J9_LINKED_LIST_ADD_LAST(@, n.node[1])],
                   a |-> n.a, reasonCode |-> BCV_SUCCESS]
    ELSE LET w == walkParents(entry.root, 1, parentClassName)
         IN  IF w.alreadyPresent
             THEN [st |-> st, a |-> a, reasonCode |-> BCV_SUCCESS]
             ELSE LET n == allocateClassRelationshipNode(st, parentClassName, a, f)
                  IN  IF n.node = <<>>
                      THEN [oom EXCEPT !.st = n.st, !.a = n.a]
                      ELSE [st |-> [n.st EXCEPT !.table.entries[childClassName].root =
                                        IF w.addBefore
                                        THEN J9_LINKED_LIST_ADD_BEFORE(@, w.walk, n.node[1])
                                        ELSE J9_LINKED_LIST_ADD_LAST(@, n.node[1])],
                            a |-> n.a, reasonCode |-> BCV_SUCCESS]

\* the part of j9bcv_recordClassRelationship after the entry is in hand
recordParent(st, childClassName, parentClassName, a, f) ==
    LET entry == st.table.entries[childClassName]
        oom == [st |-> st, a |-> a, reasonCode |-> BCV_ERR_INSUFFICIENT_MEMORY]
    IN
    IF J9UTF8_DATA_EQUALS(J9RELATIONSHIP_JAVA_LANG_THROWABLE_STRING, parentClassName)
    THEN [st |-> [st EXCEPT !.table.entries[childClassName].flags =
                        @ \cup {J9RELATIONSHIP_PARENT_CLASS_IS_THROWABLE}],
          a |-> a, reasonCode |-> BCV_SUCCESS]
    ELSE IF entry.root = <<>>
    THEN LET n == allocateClassRelationshipNode(st, parentClassName, a, f)
         IN  IF n.node = <<>>
             THEN [oom EXCEPT !.st = n.st, !.a = n.a]
             ELSE [st |-> [n.st EXCEPT !.table.entries[childClassName].root =
                                J9_LINKED_LIST_ADD_LAST(@, n.node[1])],
                   a |-> n.a, reasonCode |-> BCV_SUCCESS]
    ELSE LET w == walkParents(entry.root, 1, parentClassName)
         IN  IF w.alreadyPresent
             THEN [st |-> st, a |-> a, reasonCode |-> BCV_SUCCESS]
             ELSE LET n == allocateClassRelationshipNode(st, parentClassName, a, f)
                  IN  IF n.node = <<>>
                      THEN [oom EXCEPT !.st = n.st, !.a = n.a]
                      ELSE [st |-> [n.st EXCEPT !.table.entries[childClassName].root =
                                        IF w.addBefore
                                        THEN J9_LINKED_LIST_ADD_BEFORE(@, w.walk, n.node[1])
                                        ELSE J9_LINKED_LIST_ADD_LAST(@, n.node[1])],
                            a |-> n.a, reasonCode |-> BCV_SUCCESS]

\* j9bcv_recordClassRelationship: [st, a, reasonCode]
j9bcv_recordClassRelationship(st0, childClassName, parentClassName, a0, f) ==
    LET alloc == IF st0.table.allocated
                 THEN [st |-> st0, a |-> a0, result |-> 0]
                 ELSE allocateClassRelationshipTableAndPool(st0, a0, f)
        st1 == alloc.st
        a1 == alloc.a
    IN
    IF alloc.result # 0
    THEN [st |-> st1, a |-> a1, reasonCode |-> BCV_ERR_INSUFFICIENT_MEMORY]
    ELSE IF findClassRelationship(st1, childClassName) # <<>>
    THEN recordParent(st1, childClassName, parentClassName, a1, f)
    ELSE IF AllocFails(a1, f)
    THEN [st |-> st1, a |-> a1 + 1, reasonCode |-> BCV_ERR_INSUFFICIENT_MEMORY]
    ELSE IF AllocFails(a1 + 1, f)
    THEN [st |-> st1, a |-> a1 + 2, reasonCode |-> BCV_ERR_INSUFFICIENT_MEMORY]
    ELSE recordParent(
            [st1 EXCEPT !.table.entries =
                hashTableAdd(@, childClassName, [flags |-> {}, root |-> <<>>])],
            childClassName, parentClassName, a1 + 2, f)

\* freeClassRelationshipNodes unlinking the nodes without returning them to
\* the pool
freeClassRelationshipNodes_Leak(st, className) ==
    [st EXCEPT !.table.entries[className].root = <<>>]

\* freeClassRelationshipNodes: every node of the entry goes back to the pool
freeClassRelationshipNodes(st, className) ==
    [st EXCEPT !.pool.numElements = @ - Len(st.table.entries[className].root),
               !.table.entries[className].root = <<>>]

\* validateParents creating the entry of an unloaded parent with no flag
RECURSIVE validateParents_ZeroFlags(_, _, _, _, _, _, _)
validateParents_ZeroFlags(st, ct, childClass, root, i, a, f) ==
    IF i > Len(root)
    THEN [st |-> st, a |-> a, failedClass |-> NULL, oom |-> FALSE,
          visited |-> i - 1]
    ELSE LET parentClass == hashClassTableAt(ct, root[i]) IN
    IF parentClass = NULL
    THEN IF findClassRelationship(st, root[i]) = <<>>
         THEN IF AllocFails(a, f)
              THEN [st |-> st, a |-> a + 1, failedClass |-> childClass, oom |-> TRUE,
                    visited |-> i]
              ELSE IF AllocFails(a + 1, f)
              THEN [st |-> st, a |-> a + 2, failedClass |-> childClass, oom |-> TRUE,
                    visited |-> i]
              ELSE validateParents_ZeroFlags(
                      [st EXCEPT !.table.entries = hashTableAdd(@, root[i],
                          [flags |-> {}, root |-> <<>>])],
                      ct, childClass, root, i + 1, a + 2, f)
         ELSE validateParents_ZeroFlags(
                 [st EXCEPT !.table.entries[root[i]].flags =
                     @ \cup {J9RELATIONSHIP_MUST_BE_INTERFACE}],
                 ct, childClass, root, i + 1, a, f)
    ELSE IF J9ROMCLASS_IS_INTERFACE(ct, parentClass)
    THEN validateParents_ZeroFlags(st, ct, childClass, root, i + 1, a, f)
    ELSE IF isSameOrSuperClassOf(ct, parentClass, childClass)
    THEN validateParents_ZeroFlags(st, ct, childClass, root, i + 1, a, f)
    ELSE [st |-> st, a |-> a, failedClass |-> parentClass, oom |-> FALSE,
          visited |-> i]

\* validateParents accepting every loaded parent
RECURSIVE validateParents_AcceptsLoaded(_, _, _, _, _, _, _)
validateParents_AcceptsLoaded(st, ct, childClass, root, i, a, f) ==
    IF i > Len(root)
    THEN [st |-> st, a |-> a, failedClass |-> NULL, oom |-> FALSE,
          visited |-> i - 1]
    ELSE LET parentClass == hashClassTableAt(ct, root[i]) IN
    IF parentClass = NULL
    THEN IF findClassRelationship(st, root[i]) = <<>>
         THEN IF AllocFails(a, f)
              THEN [st |-> st, a |-> a + 1, failedClass |-> childClass, oom |-> TRUE,
                    visited |-> i]
              ELSE IF AllocFails(a + 1, f)
              THEN [st |-> st, a |-> a + 2, failedClass |-> childClass, oom |-> TRUE,
                    visited |-> i]
              ELSE validateParents_AcceptsLoaded(
                      [st EXCEPT !.table.entries = hashTableAdd(@, root[i],
                          [flags |-> {J9RELATIONSHIP_MUST_BE_INTERFACE}, root |-> <<>>])],
                      ct, childClass, root, i + 1, a + 2, f)
         ELSE validateParents_AcceptsLoaded(
                 [st EXCEPT !.table.entries[root[i]].flags =
                     @ \cup {J9RELATIONSHIP_MUST_BE_INTERFACE}],
                 ct, childClass, root, i + 1, a, f)
    ELSE validateParents_AcceptsLoaded(st, ct, childClass, root, i + 1, a, f)

\* validateParents assigning J9RELATIONSHIP_MUST_BE_INTERFACE to the flags
\* of an unloaded parent's entry instead of setting the bit
RECURSIVE validateParents_AssignsFlag(_, _, _, _, _, _, _)
validateParents_AssignsFlag(st, ct, childClass, root, i, a, f) ==
    IF i > Len(root)
    THEN [st |-> st, a |-> a, failedClass |-> NULL, oom |-> FALSE,
          visited |-> i - 1]
    ELSE LET parentClass == hashClassTableAt(ct, root[i]) IN
    IF parentClass = NULL
    THEN IF findClassRelationship(st, root[i]) = <<>>
         THEN IF AllocFails(a, f)
              THEN [st |-> st, a |-> a + 1, failedClass |-> childClass, oom |-> TRUE,
                    visited |-> i]
              ELSE IF AllocFails(a + 1, f)
              THEN [st |-> st, a |-> a + 2, failedClass |-> childClass, oom |-> TRUE,
                    visited |-> i]
              ELSE validateParents_AssignsFlag(
                      [st EXCEPT !.table.entries = hashTableAdd(@, root[i],
                          [flags |-> {J9RELATIONSHIP_MUST_BE_INTERFACE}, root |-> <<>>])],
                      ct, childClass, root, i + 1, a + 2, f)
         ELSE validateParents_AssignsFlag(
                 [st EXCEPT !.table.entries[root[i]].flags =
                     {J9RELATIONSHIP_MUST_BE_INTERFACE}],
                 ct, childClass, root, i + 1, a, f)
    ELSE IF J9ROMCLASS_IS_INTERFACE(ct, parentClass)
    THEN validateParents_AssignsFlag(st, ct, childClass, root, i + 1, a, f)
    ELSE IF isSameOrSuperClassOf(ct, parentClass, childClass)
    THEN validateParents_AssignsFlag(st, ct, childClass, root, i + 1, a, f)
    ELSE [st |-> st, a |-> a, failedClass |-> parentClass, oom |-> FALSE,
          visited |-> i]

\* the walk of j9bcv_validateClassRelationships over the child's parent
\* list, from node i on: [st, a, failedClass, oom, visited], visited being
\* the number of nodes the loop looked at
RECURSIVE validateParents(_, _, _, _, _, _, _)
validateParents(st, ct, childClass, root, i, a, f) ==
    IF i > Len(root)
    THEN [st |-> st, a |-> a, failedClass |-> NULL, oom |-> FALSE,
          visited |-> i - 1]
    ELSE LET parentClass == hashClassTableAt(ct, root[i]) IN
    IF parentClass = NULL
    THEN IF findClassRelationship(st, root[i]) = <<>>
         THEN IF AllocFails(a, f)
              THEN [st |-> st, a |-> a + 1, failedClass |-> childClass, oom |-> TRUE,
                    visited |-> i]
              ELSE IF AllocFails(a + 1, f)
              THEN [st |-> st, a |-> a + 2, failedClass |-> childClass, oom |-> TRUE,
                    visited |-> i]
              ELSE validateParents(
                      [st EXCEPT !.table.entries = hashTableAdd(@, root[i],
                          [flags |-> {J9RELATIONSHIP_MUST_BE_INTERFACE}, root |-> <<>>])],
                      ct, childClass, root, i + 1, a + 2, f)
         ELSE validateParents(
                 [st EXCEPT !.table.entries[root[i]].flags =
                     @ \cup {J9RELATIONSHIP_MUST_BE_INTERFACE}],
                 ct, childClass, root, i + 1, a, f)
    ELSE IF J9ROMCLASS_IS_INTERFACE(ct, parentClass)
    THEN validateParents(st, ct, childClass, root, i + 1, a, f)
    ELSE IF isSameOrSuperClassOf(ct, parentClass, childClass)
    THEN validateParents(st, ct, childClass, root, i + 1, a, f)
    ELSE [st |-> st, a |-> a, failedClass |-> parentClass, oom |-> FALSE,
          visited |-> i]

\* j9bcv_validateClassRelationships without the test of the
\* J9RELATIONSHIP_PARENT_CLASS_IS_THROWABLE flag
j9bcv_validateClassRelationships_NoThrowableCheck(st, ct, childClassName, childClass, a, f) ==
    LET classRelationshipEntry == findClassRelationship(st, childClassName)
        done(failedClass) ==
            [st |-> st, a |-> a, failedClass |-> failedClass, oom |-> FALSE,
             visited |-> 0]
    IN
    IF classRelationshipEntry = <<>>
    THEN done(NULL)
    ELSE IF /\ J9RELATIONSHIP_MUST_BE_INTERFACE \in classRelationshipEntry[1].flags
            /\ ~J9ROMCLASS_IS_INTERFACE(ct, childClass)
    THEN done(childClass)
    ELSE LET w == validateParents(st, ct, childClass, classRelationshipEntry[1].root, 1, a, f)
         IN  IF w.failedClass # NULL
             THEN w
             ELSE [w EXCEPT !.st =
                      [freeClassRelationshipNodes(w.st, childClassName)
                          EXCEPT !.table.entries = hashTableRemove(@, childClassName)]]

\* j9bcv_validateClassRelationships freeing the table with the last entry
j9bcv_validateClassRelationships_FreesEmptyTable(st, ct, childClassName, childClass, a, f) ==
    LET classRelationshipEntry == findClassRelationship(st, childClassName)
        done(failedClass) ==
            [st |-> st, a |-> a, failedClass |-> failedClass, oom |-> FALSE,
             visited |-> 0]
    IN
    IF classRelationshipEntry = <<>>
    THEN done(NULL)
    ELSE IF /\ J9RELATIONSHIP_MUST_BE_INTERFACE \in classRelationshipEntry[1].flags
            /\ ~J9ROMCLASS_IS_INTERFACE(ct, childClass)
    THEN done(childClass)
    ELSE IF /\ J9RELATIONSHIP_PARENT_CLASS_IS_THROWABLE \in classRelationshipEntry[1].flags
            /\ ~isSameOrSuperClassOf(ct, J9RELATIONSHIP_JAVA_LANG_THROWABLE_STRING, childClass)
    THEN done(J9RELATIONSHIP_JAVA_LANG_THROWABLE_STRING)
    ELSE LET w == validateParents(st, ct, childClass, classRelationshipEntry[1].root, 1, a, f)
             removed == [freeClassRelationshipNodes(w.st, childClassName)
                            EXCEPT !.table.entries = hashTableRemove(@, childClassName)]
         IN  IF w.failedClass # NULL
             THEN w
             ELSE IF DOMAIN removed.table.entries = {}
             THEN [w EXCEPT !.st = [removed EXCEPT !.table = NoTable]]
             ELSE [w EXCEPT !.st = removed]

\* j9bcv_validateClassRelationships testing the
\* J9RELATIONSHIP_PARENT_CLASS_IS_THROWABLE flag before the
\* J9RELATIONSHIP_MUST_BE_INTERFACE flag
j9bcv_validateClassRelationships_ThrowableFirst(st, ct, childClassName, childClass, a, f) ==
    LET classRelationshipEntry == findClassRelationship(st, childClassName)
        done(failedClass) ==
            [st |-> st, a |-> a, failedClass |-> failedClass, oom |-> FALSE,
             visited |-> 0]
    IN
    IF classRelationshipEntry = <<>>
    THEN done(NULL)
    ELSE IF /\ J9RELATIONSHIP_PARENT_CLASS_IS_THROWABLE \in classRelationshipEntry[1].flags
            /\ ~isSameOrSuperClassOf(ct, J9RELATIONSHIP_JAVA_LANG_THROWABLE_STRING, childClass)
    THEN done(J9RELATIONSHIP_JAVA_LANG_THROWABLE_STRING)
    ELSE IF /\ J9RELATIONSHIP_MUST_BE_INTERFACE \in classRelationshipEntry[1].flags
            /\ ~J9ROMCLASS_IS_INTERFACE(ct, childClass)
    THEN done(childClass)
    ELSE LET w == validateParents(st, ct, childClass, classRelationshipEntry[1].root, 1, a, f)
         IN  IF w.failedClass # NULL
             THEN w
             ELSE [w EXCEPT !.st =
                      [freeClassRelationshipNodes(w.st, childClassName)
                          EXCEPT !.table.entries = hashTableRemove(@, childClassName)]]

\* j9bcv_validateClassRelationships freeing the child's entry whatever the
\* walk of the parents returns
j9bcv_validateClassRelationships_FreesOnFailure(st, ct, childClassName, childClass, a, f) ==
    LET classRelationshipEntry == findClassRelationship(st, childClassName)
        done(failedClass) ==
            [st |-> st, a |-> a, failedClass |-> failedClass, oom |-> FALSE,
             visited |-> 0]
    IN
    IF classRelationshipEntry = <<>>
    THEN done(NULL)
    ELSE IF /\ J9RELATIONSHIP_MUST_BE_INTERFACE \in classRelationshipEntry[1].flags
            /\ ~J9ROMCLASS_IS_INTERFACE(ct, childClass)
    THEN done(childClass)
    ELSE IF /\ J9RELATIONSHIP_PARENT_CLASS_IS_THROWABLE \in classRelationshipEntry[1].flags
            /\ ~isSameOrSuperClassOf(ct, J9RELATIONSHIP_JAVA_LANG_THROWABLE_STRING, childClass)
    THEN done(J9RELATIONSHIP_JAVA_LANG_THROWABLE_STRING)
    ELSE LET w == validateParents(st, ct, childClass, classRelationshipEntry[1].root, 1, a, f)
         IN  [w EXCEPT !.st =
                 [freeClassRelationshipNodes(w.st, childClassName)
                     EXCEPT !.table.entries = hashTableRemove(@, childClassName)]]

\* j9bcv_validateClassRelationships: [st, a, failedClass, oom, visited]
j9bcv_validateClassRelationships(st, ct, childClassName, childClass, a, f) ==
    LET classRelationshipEntry == findClassRelationship(st, childClassName)
        done(failedClass) ==
            [st |-> st, a |-> a, failedClass |-> failedClass, oom |-> FALSE,
             visited |-> 0]
    IN
    IF classRelationshipEntry = <<>>
    THEN done(NULL)
    ELSE IF /\ J9RELATIONSHIP_MUST_BE_INTERFACE \in classRelationshipEntry[1].flags
            /\ ~J9ROMCLASS_IS_INTERFACE(ct, childClass)
    THEN done(childClass)
    ELSE IF /\ J9RELATIONSHIP_PARENT_CLASS_IS_THROWABLE \in classRelationshipEntry[1].flags
            /\ ~isSameOrSuperClassOf(ct, J9RELATIONSHIP_JAVA_LANG_THROWABLE_STRING, childClass)
    THEN done(J9RELATIONSHIP_JAVA_LANG_THROWABLE_STRING)
    ELSE LET w == validateParents(st, ct, childClass, classRelationshipEntry[1].root, 1, a, f)
         IN  IF w.failedClass # NULL
             THEN w
             ELSE [w EXCEPT !.st =
                      [freeClassRelationshipNodes(w.st, childClassName)
                          EXCEPT !.table.entries = hashTableRemove(@, childClassName)]]

\* the loop of j9bcv_freeClassRelationshipTableAndPool over the entries of
\* the table: the nodes of the entry are freed and the entry is removed
RECURSIVE freeClassRelationshipEntries(_)
freeClassRelationshipEntries(st) ==
    IF DOMAIN st.table.entries = {}
    THEN st
    ELSE LET relationshipEntry == CHOOSE className \in DOMAIN st.table.entries : TRUE
         IN  freeClassRelationshipEntries(
                 [freeClassRelationshipNodes(st, relationshipEntry)
                     EXCEPT !.table.entries = hashTableRemove(@, relationshipEntry)])

\* j9bcv_freeClassRelationshipTableAndPool freeing only when the loader has
\* a pool
j9bcv_freeClassRelationshipTableAndPool_NeedsPool(st) ==
    IF st.pool.allocated
    THEN [table |-> NoTable, pool |-> NoPool]
    ELSE st

\* j9bcv_freeClassRelationshipTableAndPool: hashTableFree and pool_kill
\* after the loop over the entries
j9bcv_freeClassRelationshipTableAndPool(st) ==
    IF st.table.allocated
    THEN [table |-> [allocated |-> FALSE,
                     entries |-> freeClassRelationshipEntries(st).table.entries],
          pool |-> NoPool]
    ELSE st

\* ------------------------------------------------------ snippets of a pass
\* checkSnippetRelationship with the two classes of the hierarchy test
\* exchanged
checkSnippetRelationship_SwappedClasses(st, ct, childClassName, parentClassName, a, f) ==
    LET parentClass == hashClassTableAt(ct, parentClassName)
        childClass == hashClassTableAt(ct, childClassName)
        record == j9bcv_recordClassRelationship(st, childClassName, parentClassName, a, f)
        recorded == [st |-> record.st, a |-> record.a,
                     reasonCode |-> record.reasonCode, recorded |-> TRUE]
        verdict(reasonCode) ==
            [st |-> st, a |-> a, reasonCode |-> reasonCode, recorded |-> FALSE]
    IN
    IF parentClass = NULL
    THEN recorded
    ELSE IF J9ROMCLASS_IS_INTERFACE(ct, parentClass)
    THEN verdict(BCV_SUCCESS)
    ELSE IF childClass = NULL
    THEN recorded
    ELSE IF isSameOrSuperClassOf(ct, childClass, parentClass)
    THEN verdict(BCV_SUCCESS)
    ELSE verdict(BCV_ERR_INTERNAL_ERROR)

\* checkSnippetRelationship without the branch for a parent that is an
\* interface
checkSnippetRelationship_NoInterfaceBranch(st, ct, childClassName, parentClassName, a, f) ==
    LET parentClass == hashClassTableAt(ct, parentClassName)
        childClass == hashClassTableAt(ct, childClassName)
        record == j9bcv_recordClassRelationship(st, childClassName, parentClassName, a, f)
        recorded == [st |-> record.st, a |-> record.a,
                     reasonCode |-> record.reasonCode, recorded |-> TRUE]
        verdict(reasonCode) ==
            [st |-> st, a |-> a, reasonCode |-> reasonCode, recorded |-> FALSE]
    IN
    IF parentClass = NULL
    THEN recorded
    ELSE IF childClass = NULL
    THEN recorded
    ELSE IF isSameOrSuperClassOf(ct, parentClass, childClass)
    THEN verdict(BCV_SUCCESS)
    ELSE verdict(BCV_ERR_INTERNAL_ERROR)

\* checkSnippetRelationship: [st, a, reasonCode, recorded]
checkSnippetRelationship(st, ct, childClassName, parentClassName, a, f) ==
    LET parentClass == hashClassTableAt(ct, parentClassName)
        childClass == hashClassTableAt(ct, childClassName)
        record == j9bcv_recordClassRelationship(st, childClassName, parentClassName, a, f)
        recorded == [st |-> record.st, a |-> record.a,
                     reasonCode |-> record.reasonCode, recorded |-> TRUE]
        verdict(reasonCode) ==
            [st |-> st, a |-> a, reasonCode |-> reasonCode, recorded |-> FALSE]
    IN
    IF parentClass = NULL
    THEN recorded
    ELSE IF J9ROMCLASS_IS_INTERFACE(ct, parentClass)
    THEN verdict(BCV_SUCCESS)
    ELSE IF childClass = NULL
    THEN recorded
    ELSE IF isSameOrSuperClassOf(ct, parentClass, childClass)
    THEN verdict(BCV_SUCCESS)
    ELSE verdict(BCV_ERR_INTERNAL_ERROR)

\* the loop of processClassRelationshipSnippetsNoCachedData going on to the
\* next snippet when j9bcv_recordClassRelationship has run out of memory
RECURSIVE processSnippets_IgnoresOOM(_, _, _, _, _, _, _)
processSnippets_IgnoresOOM(snippets, i, st, ct, a, f, handed) ==
    IF i > Len(snippets)
    THEN [st |-> st, a |-> a, reasonCode |-> BCV_SUCCESS,
          evaluated |-> i - 1, handed |-> handed]
    ELSE LET childClassName == getNameAndLengthFromClassNameList(snippets[i][1])
             parentClassName == getNameAndLengthFromClassNameList(snippets[i][2])
             rest(c) ==
                 IF c.reasonCode = BCV_ERR_INTERNAL_ERROR
                 THEN [st |-> c.st, a |-> c.a, reasonCode |-> c.reasonCode,
                       evaluated |-> i, handed |-> handed]
                 ELSE processSnippets_IgnoresOOM(snippets, i + 1, c.st, ct, c.a, f,
                                                 handed)
         IN  CHOOSE r \in {rest(c) : c \in {checkSnippetRelationship(
                               st, ct, childClassName, parentClassName, a, f)}} : TRUE

\* the loop of processClassRelationshipSnippetsNoCachedData going on to the
\* next snippet after a snippet that violates its relationship
RECURSIVE processSnippets_KeepsGoing(_, _, _, _, _, _, _)
processSnippets_KeepsGoing(snippets, i, st, ct, a, f, handed) ==
    IF i > Len(snippets)
    THEN [st |-> st, a |-> a, reasonCode |-> BCV_SUCCESS,
          evaluated |-> i - 1, handed |-> handed]
    ELSE LET childClassName == getNameAndLengthFromClassNameList(snippets[i][1])
             parentClassName == getNameAndLengthFromClassNameList(snippets[i][2])
             rest(c) ==
                 IF c.reasonCode = BCV_ERR_INSUFFICIENT_MEMORY
                 THEN [st |-> c.st, a |-> c.a, reasonCode |-> c.reasonCode,
                       evaluated |-> i, handed |-> handed]
                 ELSE LET r == processSnippets_KeepsGoing(snippets, i + 1, c.st, ct,
                                                          c.a, f, handed)
                      IN  IF c.reasonCode = BCV_SUCCESS
                          THEN r
                          ELSE [r EXCEPT !.reasonCode = c.reasonCode, !.evaluated = i]
         IN  CHOOSE r \in {rest(c) : c \in {checkSnippetRelationship(
                               st, ct, childClassName, parentClassName, a, f)}} : TRUE

\* the loop of processClassRelationshipSnippetsNoCachedData over the
\* snippets in iteration order, from snippet i on.  evaluated counts the
\* snippets handed to checkSnippetRelationship, handed holds those record
\* accepted
RECURSIVE processSnippets(_, _, _, _, _, _, _)
processSnippets(snippets, i, st, ct, a, f, handed) ==
    IF i > Len(snippets)
    THEN [st |-> st, a |-> a, reasonCode |-> BCV_SUCCESS,
          evaluated |-> i - 1, handed |-> handed]
    ELSE LET childClassName == getNameAndLengthFromClassNameList(snippets[i][1])
             parentClassName == getNameAndLengthFromClassNameList(snippets[i][2])
             \* the rest of the loop body, c being the outcome of
             \* checkSnippetRelationship for snippet i
             rest(c) ==
                 LET nowHanded ==
                         IF c.recorded /\ c.reasonCode = BCV_SUCCESS
                         THEN handed \cup {<<childClassName, parentClassName,
                                             hashClassTableAt(ct, childClassName) # NULL,
                                             hashClassTableAt(ct, parentClassName) # NULL>>}
                         ELSE handed
                 IN  IF c.reasonCode # BCV_SUCCESS
                     THEN [st |-> c.st, a |-> c.a, reasonCode |-> c.reasonCode,
                           evaluated |-> i, handed |-> nowHanded]
                     ELSE processSnippets(snippets, i + 1, c.st, ct, c.a, f, nowHanded)
         IN  CHOOSE r \in {rest(c) : c \in {checkSnippetRelationship(
                               st, ct, childClassName, parentClassName, a, f)}} : TRUE

\* the loop of processClassRelationshipSnippetsUsingCachedData without the
\* break: a refused snippet is followed by the next, and the reasonCode is
\* that of the last snippet
RECURSIVE processCachedSnippets_NoBreak(_, _, _, _, _, _, _)
processCachedSnippets_NoBreak(snippets, i, st, ct, a, f, handed) ==
    IF i > Len(snippets)
    THEN [st |-> st, a |-> a, reasonCode |-> BCV_SUCCESS,
          evaluated |-> i - 1, handed |-> handed]
    ELSE IF ASSERTION_FAILURE \in {snippets[i][1], snippets[i][2]}
    THEN [st |-> st, a |-> a, reasonCode |-> ASSERTION_FAILURE,
          evaluated |-> i, handed |-> handed]
    ELSE LET childClassName == snippets[i][1]
             parentClassName == snippets[i][2]
             rest(c) ==
                 LET nowHanded ==
                         IF c.recorded /\ c.reasonCode = BCV_SUCCESS
                         THEN handed \cup {<<childClassName, parentClassName,
                                             hashClassTableAt(ct, childClassName) # NULL,
                                             hashClassTableAt(ct, parentClassName) # NULL>>}
                         ELSE handed
                 IN  IF c.reasonCode # BCV_SUCCESS /\ i = Len(snippets)
                     THEN [st |-> c.st, a |-> c.a, reasonCode |-> c.reasonCode,
                           evaluated |-> i, handed |-> nowHanded]
                     ELSE processCachedSnippets_NoBreak(snippets, i + 1, c.st, ct,
                                                        c.a, f, nowHanded)
         IN  CHOOSE r \in {rest(c) : c \in {checkSnippetRelationship(
                               st, ct, childClassName, parentClassName, a, f)}} : TRUE

\* the loop of processClassRelationshipSnippetsUsingCachedData over the
\* (child name, parent name) pairs read from the cached data, from pair i on
RECURSIVE processCachedSnippets(_, _, _, _, _, _, _)
processCachedSnippets(snippets, i, st, ct, a, f, handed) ==
    IF i > Len(snippets)
    THEN [st |-> st, a |-> a, reasonCode |-> BCV_SUCCESS,
          evaluated |-> i - 1, handed |-> handed]
    ELSE IF ASSERTION_FAILURE \in {snippets[i][1], snippets[i][2]}
    THEN [st |-> st, a |-> a, reasonCode |-> ASSERTION_FAILURE,
          evaluated |-> i, handed |-> handed]
    ELSE LET childClassName == snippets[i][1]
             parentClassName == snippets[i][2]
             rest(c) ==
                 LET nowHanded ==
                         IF c.recorded /\ c.reasonCode = BCV_SUCCESS
                         THEN handed \cup {<<childClassName, parentClassName,
                                             hashClassTableAt(ct, childClassName) # NULL,
                                             hashClassTableAt(ct, parentClassName) # NULL>>}
                         ELSE handed
                 IN  IF c.reasonCode # BCV_SUCCESS
                     THEN [st |-> c.st, a |-> c.a, reasonCode |-> c.reasonCode,
                           evaluated |-> i, handed |-> nowHanded]
                     ELSE processCachedSnippets(snippets, i + 1, c.st, ct, c.a, f,
                                                nowHanded)
         IN  CHOOSE r \in {rest(c) : c \in {checkSnippetRelationship(
                               st, ct, childClassName, parentClassName, a, f)}} : TRUE

NoSnippetsTable == [allocated |-> FALSE, snippets |-> {}]

\* relationshipSnippetHashEqualFn comparing the child indices only
relationshipSnippetHashEqualFn_ChildOnly(leftKey, rightKey) ==
    leftKey[1] = rightKey[1]

\* relationshipSnippetHashEqualFn: both indices of the two snippets agree
relationshipSnippetHashEqualFn(leftKey, rightKey) ==
    leftKey[1] = rightKey[1] /\ leftKey[2] = rightKey[2]

\* j9bcv_recordClassRelationshipSnippet returning TRUE for a snippet the
\* table holds already
j9bcv_recordClassRelationshipSnippet_TrueWhenPresent(table, childClassNameIndex, parentClassNameIndex, f) ==
    LET exemplar == <<childClassNameIndex, parentClassNameIndex>>
        allocated == [allocated |-> TRUE, snippets |-> table.snippets]
        a == IF table.allocated THEN 0 ELSE 1
    IN
    IF ~table.allocated /\ AllocFails(0, f)
    THEN [table |-> table, recordResult |-> FALSE,
          reasonCode |-> BCV_ERR_INSUFFICIENT_MEMORY]
    ELSE IF \E s \in table.snippets : relationshipSnippetHashEqualFn(s, exemplar)
    THEN [table |-> allocated, recordResult |-> TRUE, reasonCode |-> BCV_SUCCESS]
    ELSE IF AllocFails(a, f)
    THEN [table |-> allocated, recordResult |-> FALSE,
          reasonCode |-> BCV_ERR_INSUFFICIENT_MEMORY]
    ELSE [table |-> [allocated EXCEPT !.snippets = @ \cup {exemplar}],
          recordResult |-> TRUE, reasonCode |-> BCV_SUCCESS]

\* j9bcv_recordClassRelationshipSnippet: [table, recordResult, reasonCode]
j9bcv_recordClassRelationshipSnippet(table, childClassNameIndex, parentClassNameIndex, f) ==
    LET exemplar == <<childClassNameIndex, parentClassNameIndex>>
        allocated == [allocated |-> TRUE, snippets |-> table.snippets]
        a == IF table.allocated THEN 0 ELSE 1
    IN
    IF ~table.allocated /\ AllocFails(0, f)
    THEN [table |-> table, recordResult |-> FALSE,
          reasonCode |-> BCV_ERR_INSUFFICIENT_MEMORY]
    ELSE IF \E s \in table.snippets : relationshipSnippetHashEqualFn(s, exemplar)
    THEN [table |-> allocated, recordResult |-> FALSE, reasonCode |-> BCV_SUCCESS]
    ELSE IF AllocFails(a, f)
    THEN [table |-> allocated, recordResult |-> FALSE,
          reasonCode |-> BCV_ERR_INSUFFICIENT_MEMORY]
    ELSE [table |-> [allocated EXCEPT !.snippets = @ \cup {exemplar}],
          recordResult |-> TRUE, reasonCode |-> BCV_SUCCESS]

\* freeClassRelationshipSnippetsHashTable leaving the table as it is
freeClassRelationshipSnippetsHashTable_Keeps(table) == table

\* freeClassRelationshipSnippetsHashTable: every entry is removed and the
\* table is freed
freeClassRelationshipSnippetsHashTable(table) ==
    IF table.allocated
    THEN NoSnippetsTable
    ELSE table

\* the orders in which a hash table walk can visit the members of S
IterationOrders(S) ==
    {s \in [1..Cardinality(S) -> S] : \A i, j \in DOMAIN s : i # j => s[i] # s[j]}

\* ------------------------------------------------- the shared cache blob
\* J9RELATIONSHIP_SNIPPET_COUNT_THRESHOLD: more snippets than this and the
\* class names of a blob are mapped with a hash table instead of an array
J9RELATIONSHIP_SNIPPET_COUNT_THRESHOLD == 2
J9RELATIONSHIP_SNIPPET_SINGLE == "SINGLE"
J9RELATIONSHIP_SNIPPET_USE_ARRAY == "USE_ARRAY"
J9RELATIONSHIP_SNIPPET_USE_HASHTABLE == "USE_HASHTABLE"
\* sizeof(J9SharedClassRelationshipHeader), sizeof(J9SharedClassRelationshipSnippet)
\* and sizeof(J9SRP) in bytes
headerSize == 8
snippetSize == 8
offsetToNextSRP == 4

\* Memory maps the address of a field to the value written there: a UDATA
\* or a J9SRP is a number, a J9UTF8 is the class name of its bytes.  A
\* field that has not been written since the memset of the buffer reads 0.
ReadMemory(mem, address) ==
    IF address \in DOMAIN mem THEN mem[address] ELSE 0

WriteMemory(mem, address, value) ==
    [x \in DOMAIN mem \cup {address} |-> IF x = address THEN value ELSE mem[x]]

\* memset(address, 0, size) over the field at address
ZeroMemory(mem, address) ==
    [x \in DOMAIN mem \ {address} |-> mem[x]]

\* the J9UTF8 at the address: memory that has not been written since the
\* memset holds a name of length 0
J9UTF8At(mem, address) ==
    IF address \in DOMAIN mem THEN mem[address] ELSE ""

\* SRP_PTR_SET storing the address of the target itself
SRP_PTR_SET_Absolute(mem, srpAddress, value) ==
    WriteMemory(mem, srpAddress, value)

\* SRP_PTR_SET(srpAddress, value): the self-relative pointer holds the
\* distance from its own address to the target, 0 for a NULL target
SRP_PTR_SET(mem, srpAddress, value) ==
    WriteMemory(mem, srpAddress, IF value = 0 THEN 0 ELSE value - srpAddress)

\* SRP_GET(field, type): 0 (NULL) for a field holding 0, else the address the
\* field's distance leads to
SRP_GET(mem, srpAddress) ==
    IF ReadMemory(mem, srpAddress) = 0
    THEN 0
    ELSE srpAddress + ReadMemory(mem, srpAddress)

\* the bytes a class name takes in the buffer: the name, its terminator and
\* the U_16 length
UTF8Size(className) == Len(className) + 1 + 2

\* setCurrentAndNextUTF8s: the name is written at the next free address
setCurrentAndNextUTF8s(mem, nextUTF8Address, classNameIndex) ==
    [mem |-> WriteMemory(mem, nextUTF8Address,
                         getNameAndLengthFromClassNameList(classNameIndex)),
     utf8Address |-> nextUTF8Address,
     utf8AddressSize |-> UTF8Size(getNameAndLengthFromClassNameList(classNameIndex))]

\* The writer's position b is [mem, srpAddress, nextUTF8Address,
\* classNamesArray, classNamesHashTable, a]; the getUTF8Address functions
\* give [b, utf8Address, asserted], utf8Address 0 being NULL.

\* getUTF8Address: the name gets an address of its own
getUTF8Address(b, classNameIndex) ==
    LET s == setCurrentAndNextUTF8s(b.mem, b.nextUTF8Address, classNameIndex)
    IN  [b |-> [b EXCEPT !.mem = s.mem,
                         !.nextUTF8Address = s.utf8Address + s.utf8AddressSize],
         utf8Address |-> s.utf8Address,
         asserted |-> FALSE]

\* getUTF8AddressFromArray writing the name without moving the next address
getUTF8AddressFromArray_NextNotMoved(b, totalNumberOfIndices, classNameIndex, f) ==
    LET found == {i \in DOMAIN b.classNamesArray :
                     b.classNamesArray[i].classNameIndex = classNameIndex}
        s == setCurrentAndNextUTF8s(b.mem, b.nextUTF8Address, classNameIndex)
    IN  IF found # {}
        THEN [b |-> b,
              utf8Address |-> b.classNamesArray[CHOOSE i \in found : TRUE].address,
              asserted |-> FALSE]
        ELSE IF AllocFails(b.a, f)
        THEN [b |-> [b EXCEPT !.a = @ + 1], utf8Address |-> 0, asserted |-> FALSE]
        ELSE [b |-> [b EXCEPT
                        !.a = @ + 1,
                        !.mem = s.mem,
                        !.classNamesArray = Append(@,
                                    [classNameIndex |-> classNameIndex,
                                     address |-> s.utf8Address])],
              utf8Address |-> s.utf8Address,
              asserted |-> FALSE]

\* getUTF8AddressFromArray: the array maps each class name index met so far
\* to the address of its name; the scan ends at the index or at the first
\* free slot
getUTF8AddressFromArray(b, totalNumberOfIndices, classNameIndex, f) ==
    LET found == {i \in DOMAIN b.classNamesArray :
                     b.classNamesArray[i].classNameIndex = classNameIndex}
        s == setCurrentAndNextUTF8s(b.mem, b.nextUTF8Address, classNameIndex)
    IN  IF found # {}
        THEN [b |-> b,
              utf8Address |-> b.classNamesArray[CHOOSE i \in found : TRUE].address,
              asserted |-> FALSE]
        ELSE IF AllocFails(b.a, f)
        THEN [b |-> [b EXCEPT !.a = @ + 1], utf8Address |-> 0, asserted |-> FALSE]
        ELSE [b |-> [b EXCEPT
                        !.a = @ + 1,
                        !.mem = s.mem,
                        !.nextUTF8Address = s.utf8Address + s.utf8AddressSize,
                        !.classNamesArray = Append(@,
                                    [classNameIndex |-> classNameIndex,
                                     address |-> s.utf8Address])],
              utf8Address |-> s.utf8Address,
              asserted |-> FALSE]

\* relationshipClassNameHashEqualFn: the name at the entry's address and the
\* name of the exemplar agree
relationshipClassNameHashEqualFn(mem, leftAddress, rightAddress) ==
    J9UTF8_DATA_EQUALS(ReadMemory(mem, leftAddress), ReadMemory(mem, rightAddress))

\* getUTF8AddressFromHashTable: the name is written at the next free address
\* and looked up by its bytes; an earlier copy makes the writer erase the
\* new one, and a hashTableAdd that fails trips the assertion
getUTF8AddressFromHashTable(b, classNameIndex, f) ==
    LET s == setCurrentAndNextUTF8s(b.mem, b.nextUTF8Address, classNameIndex)
        classNameEntry == {address \in b.classNamesHashTable :
                              relationshipClassNameHashEqualFn(
                                  s.mem, address, s.utf8Address)}
    IN  IF classNameEntry # {}
        THEN [b |-> [b EXCEPT !.mem = ZeroMemory(s.mem, s.utf8Address)],
              utf8Address |-> CHOOSE address \in classNameEntry : TRUE,
              asserted |-> FALSE]
        ELSE IF AllocFails(b.a, f)
        THEN [b |-> [b EXCEPT !.a = @ + 1, !.mem = s.mem],
              utf8Address |-> s.utf8Address,
              asserted |-> TRUE]
        ELSE [b |-> [b EXCEPT
                        !.a = @ + 1,
                        !.mem = s.mem,
                        !.nextUTF8Address = s.utf8Address + s.utf8AddressSize,
                        !.classNamesHashTable = @ \cup {s.utf8Address}],
              utf8Address |-> s.utf8Address,
              asserted |-> FALSE]

\* the loop of storeToDataBuffer over the snippets in iteration order, from
\* snippet i on: [b, storeResult]
RECURSIVE storeSnippets(_, _, _, _, _, _)
storeSnippets(order, i, b, snippetConfig, totalNumberOfIndices, f) ==
    IF i > Len(order)
    THEN [b |-> b, storeResult |-> BCV_SUCCESS]
    ELSE LET utf8AddressOf(at, classNameIndex) ==
                 IF snippetConfig = J9RELATIONSHIP_SNIPPET_USE_HASHTABLE
                 THEN getUTF8AddressFromHashTable(at, classNameIndex, f)
                 ELSE IF snippetConfig = J9RELATIONSHIP_SNIPPET_USE_ARRAY
                 THEN getUTF8AddressFromArray(at, totalNumberOfIndices, classNameIndex, f)
                 ELSE getUTF8Address(at, classNameIndex)
             failed(u) ==
                 [b |-> u.b,
                  storeResult |-> IF u.asserted THEN ASSERTION_FAILURE
                                  ELSE BCV_ERR_INSUFFICIENT_MEMORY]
             \* both addresses in hand: the two SRPs of the snippet are set
             setSRPs(child, parent) ==
                 IF parent.asserted \/ parent.utf8Address = 0
                 THEN failed(parent)
                 ELSE storeSnippets(order, i + 1,
                         [parent.b EXCEPT
                             !.mem = SRP_PTR_SET(
                                         SRP_PTR_SET(@, parent.b.srpAddress,
                                                     child.utf8Address),
                                         parent.b.srpAddress + offsetToNextSRP,
                                         parent.utf8Address),
                             !.srpAddress = @ + offsetToNextSRP + offsetToNextSRP],
                         snippetConfig, totalNumberOfIndices, f)
             withChild(child) ==
                 IF child.asserted \/ child.utf8Address = 0
                 THEN failed(child)
                 ELSE CHOOSE r \in {setSRPs(child, parent) :
                                       parent \in {utf8AddressOf(child.b, order[i][2])}} : TRUE
         IN  CHOOSE r \in {withChild(child) :
                               child \in {utf8AddressOf(b, order[i][1])}} : TRUE

\* storeToDataBuffer: [mem, a, storeResult]
storeToDataBuffer(mem, dataBufferSnippetStart, dataBufferUTF8Start, snippetCount, order, a, f) ==
    LET snippetConfig ==
            IF snippetCount = 1 THEN J9RELATIONSHIP_SNIPPET_SINGLE
            ELSE IF snippetCount > J9RELATIONSHIP_SNIPPET_COUNT_THRESHOLD
            THEN J9RELATIONSHIP_SNIPPET_USE_HASHTABLE
            ELSE J9RELATIONSHIP_SNIPPET_USE_ARRAY
        tableAttempt ==
            IF snippetConfig = J9RELATIONSHIP_SNIPPET_USE_HASHTABLE THEN 1 ELSE 0
        start == [mem |-> mem, srpAddress |-> dataBufferSnippetStart,
                  nextUTF8Address |-> dataBufferUTF8Start,
                  classNamesArray |-> <<>>, classNamesHashTable |-> {},
                  a |-> a + tableAttempt]
        done(r) == [mem |-> r.b.mem, a |-> r.b.a, storeResult |-> r.storeResult]
    IN  IF tableAttempt = 1 /\ AllocFails(a, f)
        THEN [mem |-> mem, a |-> a + 1, storeResult |-> BCV_ERR_INSUFFICIENT_MEMORY]
        ELSE CHOOSE d \in {done(r) : r \in {storeSnippets(
                               order, 1, start, snippetConfig, snippetCount * 2, f)}} : TRUE

\* getTotalUTF8Size: both names of every snippet, each length kept in a U_16
RECURSIVE getTotalUTF8Size(_, _)
getTotalUTF8Size(order, i) ==
    IF i > Len(order)
    THEN 0
    ELSE LET childClassNameLength ==
                 (Len(getNameAndLengthFromClassNameList(order[i][1])) + 1) % 65536
             parentClassNameLength ==
                 (Len(getNameAndLengthFromClassNameList(order[i][2])) + 1) % 65536
         IN  childClassNameLength + 2 + parentClassNameLength + 2
             + getTotalUTF8Size(order, i + 1)

\* the shared cache holds no data for the class
NoSharedData == [length |-> 0, bytes |-> <<>>]

\* the bytes of the buffer as storeSharedData copies them: each field by its
\* distance from the start of the buffer
BufferBytes(mem, dataBuffer, dataBufferSize) ==
    [length |-> dataBufferSize,
     bytes |-> [offset \in {address - dataBuffer : address \in DOMAIN mem} |->
                   mem[dataBuffer + offset]]]

\* the memory of a process that has the cached data mapped at address
MappedAt(data, address) ==
    [x \in {address + offset : offset \in DOMAIN data.bytes} |->
        data.bytes[x - address]]

\* j9bcv_storeClassRelationshipSnippetsToSharedCache for a snippet table
\* walked in the given order, its buffer allocated at dataBuffer, stored
\* telling whether storeSharedData takes the data: [storeResult, data, a]
j9bcv_storeClassRelationshipSnippetsToSharedCache(table, order, dataBuffer, stored, f) ==
    LET snippetCount == IF table.allocated THEN Cardinality(table.snippets) ELSE 0
        snippetsSizeTotal == snippetCount * snippetSize
        dataBufferSize == headerSize + snippetsSizeTotal + getTotalUTF8Size(order, 1)
        result(storeResult, a) ==
            [storeResult |-> storeResult, data |-> NoSharedData, a |-> a]
        finish(s) ==
            IF s.storeResult # BCV_SUCCESS
            THEN result(s.storeResult, s.a)
            ELSE IF ~stored
            THEN result(BCV_ERR_INTERNAL_ERROR, s.a)
            ELSE [storeResult |-> BCV_SUCCESS,
                  data |-> BufferBytes(s.mem, dataBuffer, dataBufferSize),
                  a |-> s.a]
    IN  IF snippetCount = 0
        THEN result(BCV_SUCCESS, 0)
        ELSE IF AllocFails(0, f)
        THEN result(BCV_ERR_INTERNAL_ERROR, 1)
        ELSE IF AllocFails(1, f)
        THEN result(BCV_ERR_INSUFFICIENT_MEMORY, 2)
        ELSE CHOOSE r \in {finish(s) : s \in {storeToDataBuffer(
                 WriteMemory(<<>>, dataBuffer, snippetCount),
                 dataBuffer + headerSize,
                 dataBuffer + headerSize + snippetsSizeTotal,
                 snippetCount, order, 2, f)}} : TRUE

\* j9bcv_fetchClassRelationshipSnippetsFromSharedCache, findSharedDataResult
\* being the answer of the cache: [foundSnippets, fetchResult]
j9bcv_fetchClassRelationshipSnippetsFromSharedCache(findSharedDataResult, f) ==
    IF AllocFails(0, f)
    THEN [foundSnippets |-> FALSE, fetchResult |-> BCV_ERR_INTERNAL_ERROR]
    ELSE IF findSharedDataResult > 0
    THEN [foundSnippets |-> TRUE, fetchResult |-> BCV_SUCCESS]
    ELSE IF findSharedDataResult = -1
    THEN [foundSnippets |-> FALSE, fetchResult |-> BCV_ERR_INTERNAL_ERROR]
    ELSE [foundSnippets |-> FALSE, fetchResult |-> BCV_SUCCESS]

\* the loop over the cached snippets going from the last snippet to the first
RECURSIVE cachedSnippets_LastFirst(_, _, _)
cachedSnippets_LastFirst(mem, snippetsDataDescriptorAddress, i) ==
    LET snippetCount == ReadMemory(mem, snippetsDataDescriptorAddress)
        cacheDataSnippet == snippetsDataDescriptorAddress + headerSize + i * snippetSize
        childClassUTF8 == SRP_GET(mem, cacheDataSnippet)
        parentClassUTF8 == SRP_GET(mem, cacheDataSnippet + offsetToNextSRP)
        nameAt(utf8) == IF utf8 = 0 THEN ASSERTION_FAILURE ELSE J9UTF8At(mem, utf8)
    IN  IF i >= snippetCount
        THEN <<>>
        ELSE cachedSnippets_LastFirst(mem, snippetsDataDescriptorAddress, i + 1)
             \o <<<<nameAt(childClassUTF8), nameAt(parentClassUTF8)>>>>

\* the snippets processClassRelationshipSnippetsUsingCachedData reads from
\* the data mapped at snippetsDataDescriptorAddress, from snippet i on: the
\* (child name, parent name) pairs in the order of the blob, with
\* ASSERTION_FAILURE in place of a name whose SRP is NULL
RECURSIVE cachedSnippets(_, _, _)
cachedSnippets(mem, snippetsDataDescriptorAddress, i) ==
    LET snippetCount == ReadMemory(mem, snippetsDataDescriptorAddress)
        cacheDataSnippet == snippetsDataDescriptorAddress + headerSize + i * snippetSize
        childClassUTF8 == SRP_GET(mem, cacheDataSnippet)
        parentClassUTF8 == SRP_GET(mem, cacheDataSnippet + offsetToNextSRP)
        nameAt(utf8) == IF utf8 = 0 THEN ASSERTION_FAILURE ELSE J9UTF8At(mem, utf8)
    IN  IF i >= snippetCount
        THEN <<>>
        ELSE <<<<nameAt(childClassUTF8), nameAt(parentClassUTF8)>>>>
             \o cachedSnippets(mem, snippetsDataDescriptorAddress, i + 1)

\* ------------------------------------------------------------ the machine
Store == [table |-> classRelationshipsHashTable, pool |-> classRelationshipsPool]

NoCall == [op |-> "none", child |-> NULL, snippets |-> <<>>, result |-> NULL,
           oom |-> FALSE, entry |-> <<>>, evaluated |-> 0, added |-> FALSE,
           cacheError |-> "none", allocFailed |-> FALSE]

\* every operation counts against the length of the run
Step ==
    /\ ops < MaxOps
    /\ ops' = ops + 1

\* a call in which an allocation fails uses up one of the run's failures
CountAllocFailure(failed) ==
    /\ failed => allocFailures < MaxAllocFailures
    /\ allocFailures' = IF failed THEN allocFailures + 1 ELSE allocFailures

\* no ROM class is under lookup and no annotation lookup has been made
\* no data buffer has been sized
NoUTF8Area == [op |-> "none", lengths |-> <<>>, snippets |-> {}, order |-> <<>>,
               utf8SizeTotal |-> 0, written |-> 0]

NoROMClass == [romFields |-> <<>>, romMethods |-> <<>>]

NoAnnotationCall == [op |-> "none", cpIndex |-> "", annotationName |-> "",
                     result |-> FALSE]

Init ==
    /\ classTable = [n \in ClassNames |->
           IF n = J9RELATIONSHIP_JAVA_LANG_THROWABLE_STRING
           THEN [kind |-> "class", supers |-> {}]
           ELSE [kind |-> "unloaded", supers |-> {}]]
    /\ classRelationshipsHashTable = NoTable
    /\ classRelationshipsPool = NoPool
    /\ classRelationshipSnippetsHashTable = NoSnippetsTable
    /\ alive = TRUE
    /\ ops = 0
    /\ last = NoCall
    /\ deferred = {}
    /\ failureReported = FALSE
    /\ allocFailures = 0
    /\ sharedCache = NoSharedData
    /\ snippetsDataDescriptor = [address |-> 0]
    /\ threads = <<>>
    /\ romClass = NoROMClass
    /\ annotationCall = NoAnnotationCall
    /\ utf8Area = NoUTF8Area

\* The verifier records one snippet of the pass in progress.
RecordSnippet(childClassNameIndex, parentClassNameIndex, f) ==
    /\ alive
    /\ Step
    /\ Cardinality(classRelationshipSnippetsHashTable.snippets) < MaxSnippets
    /\ <<childClassNameIndex, parentClassNameIndex>> \in SnippetPairs
    /\ LET r == j9bcv_recordClassRelationshipSnippet(
                    classRelationshipSnippetsHashTable,
                    childClassNameIndex, parentClassNameIndex, f)
       IN  /\ classRelationshipSnippetsHashTable' = r.table
           /\ last' = [NoCall EXCEPT !.op = "recordSnippet",
                          !.snippets = <<<<childClassNameIndex, parentClassNameIndex>>>>,
                          !.result = r.reasonCode,
                          !.added = r.recordResult,
                          !.oom = (r.reasonCode = BCV_ERR_INSUFFICIENT_MEMORY),
                          !.allocFailed = (r.reasonCode = BCV_ERR_INSUFFICIENT_MEMORY)]
           /\ CountAllocFailure(r.reasonCode = BCV_ERR_INSUFFICIENT_MEMORY)
    /\ UNCHANGED <<classTable, classRelationshipsHashTable, classRelationshipsPool,
                   alive, deferred, failureReported, sharedCache,
                   snippetsDataDescriptor, threads,
                   romClass, annotationCall, utf8Area>>

\* j9bcv_processClassRelationshipSnippets with no cached data descriptor:
\* the snippets of the pass are walked in the hash table's iteration order
\* and the snippet table is freed.
Process(f) ==
    /\ alive
    /\ Step
    /\ IF snippetsDataDescriptor.address # 0
       THEN /\ \E r \in {processCachedSnippets(
                             cachedSnippets(
                                 MappedAt(sharedCache, snippetsDataDescriptor.address),
                                 snippetsDataDescriptor.address, 0),
                             1, Store, classTable, 0, f, {})} :
                   /\ classRelationshipsHashTable' = r.st.table
                   /\ classRelationshipsPool' = r.st.pool
                   /\ deferred' = deferred \cup r.handed
                   /\ failureReported' =
                          (failureReported \/ r.reasonCode # BCV_SUCCESS)
                   /\ last' = [NoCall EXCEPT !.op = "processCached",
                                  !.snippets = cachedSnippets(
                                      MappedAt(sharedCache, snippetsDataDescriptor.address),
                                      snippetsDataDescriptor.address, 0),
                                  !.result = r.reasonCode,
                                  !.oom = (r.reasonCode = BCV_ERR_INSUFFICIENT_MEMORY),
                                  !.allocFailed = (f # 0 /\ r.a >= f),
                                  !.evaluated = r.evaluated]
                   /\ CountAllocFailure(r.reasonCode = BCV_ERR_INSUFFICIENT_MEMORY)
            /\ UNCHANGED classRelationshipSnippetsHashTable
       ELSE IF ~classRelationshipSnippetsHashTable.allocated
       THEN /\ last' = [NoCall EXCEPT !.op = "process", !.result = BCV_SUCCESS]
            /\ UNCHANGED <<classRelationshipsHashTable, classRelationshipsPool,
                           classRelationshipSnippetsHashTable, deferred,
                           failureReported, allocFailures>>
       ELSE /\ \E order \in IterationOrders(classRelationshipSnippetsHashTable.snippets) :
                   LET r == processSnippets(order, 1, Store, classTable, 0, f, {})
                   IN  /\ classRelationshipsHashTable' = r.st.table
                       /\ classRelationshipsPool' = r.st.pool
                       /\ deferred' = deferred \cup r.handed
                       /\ failureReported' =
                              (failureReported \/ r.reasonCode # BCV_SUCCESS)
                       /\ last' = [NoCall EXCEPT !.op = "process",
                                      !.snippets = order,
                                      !.result = r.reasonCode,
                                      !.oom = (r.reasonCode = BCV_ERR_INSUFFICIENT_MEMORY),
                                      !.allocFailed = (f # 0 /\ r.a >= f),
                                      !.evaluated = r.evaluated]
                       /\ CountAllocFailure(r.reasonCode = BCV_ERR_INSUFFICIENT_MEMORY)
            /\ classRelationshipSnippetsHashTable' =
                   freeClassRelationshipSnippetsHashTable(classRelationshipSnippetsHashTable)
    /\ UNCHANGED <<classTable, alive, sharedCache, snippetsDataDescriptor, threads,
                   romClass, annotationCall, utf8Area>>

\* The superclasses a class loading now can have: none, or a loaded
\* non-interface class and that class's own superclasses.
SuperChains(ct) ==
    {{}} \cup {{d} \cup ct[d].supers :
                  d \in {n \in ClassNames : ct[n].kind = "class"}}

\* A class finishes loading and the class loading pipeline calls
\* j9bcv_validateClassRelationships for it.
Load(childClassName, kind, supers, f) ==
    /\ alive
    /\ Step
    /\ classTable[childClassName].kind = "unloaded"
    /\ supers \in (IF kind = "class" THEN SuperChains(classTable) ELSE {{}})
    /\ classTable' = [classTable EXCEPT ![childClassName] =
                          [kind |-> kind, supers |-> supers]]
    /\ LET v == j9bcv_validateClassRelationships(
                    Store, classTable', childClassName, childClassName, 0, f)
       IN  /\ classRelationshipsHashTable' = v.st.table
           /\ classRelationshipsPool' = v.st.pool
           /\ failureReported' = (failureReported \/ v.failedClass # NULL)
           /\ last' = [NoCall EXCEPT !.op = "validate",
                          !.child = childClassName,
                          !.result = v.failedClass,
                          !.oom = v.oom,
                          !.allocFailed = (f # 0 /\ v.a >= f),
                          !.evaluated = v.visited,
                          !.entry = findClassRelationship(Store, childClassName)]
           /\ CountAllocFailure(v.oom)
    /\ UNCHANGED <<classRelationshipSnippetsHashTable, alive, deferred,
                   sharedCache, snippetsDataDescriptor, threads,
                   romClass, annotationCall, utf8Area>>

\* The loader is torn down: j9bcv_freeClassRelationshipTableAndPool.
Teardown ==
    /\ alive
    /\ Step
    /\ alive' = FALSE
    /\ LET st == j9bcv_freeClassRelationshipTableAndPool(Store)
       IN  /\ classRelationshipsHashTable' = st.table
           /\ classRelationshipsPool' = st.pool
    /\ last' = [NoCall EXCEPT !.op = "free",
                   !.evaluated = Cardinality(DOMAIN classRelationshipsHashTable.entries)]
    /\ UNCHANGED <<classTable, classRelationshipSnippetsHashTable,
                   deferred, failureReported, allocFailures, sharedCache,
                   snippetsDataDescriptor, threads,
                   romClass, annotationCall, utf8Area>>

Next ==
    \/ \E c \in ClassNameIndices, p \in ClassNameIndices, f \in 0..MaxFailAt :
           RecordSnippet(c, p, f)
    \/ \E f \in 0..MaxFailAt : Process(f)
    \/ \E n \in LoadableNames, kind \in {"class", "interface"},
          supers \in SUBSET ClassNames, f \in 0..MaxFailAt :
           Load(n, kind, supers, f)
    \/ Teardown

Spec == Init /\ [][Next]_vars

\* ------------------------------------------- the machine with the cache
\* most snippets of a snippet table that is stored to the shared cache
MaxCachedSnippets == 3
\* where j9mem_allocate_memory places the data buffer
BufferAddresses == {16, 32}
\* where the shared cache maps the stored data
CacheAddresses == {24, 40}
\* the snippets of the tables stored: names that recur as child and as
\* parent, and one snippet whose child is its own parent
CachedSnippetPairs == {<<1, 1>>, <<1, 2>>, <<3, 1>>, <<3, 4>>}
\* number of operations in a run with the cache
MaxCacheOps == 3

\* the loaded-class views of the runs with the cache: nothing loaded but
\* java/lang/Throwable, or "A" loaded as a class and "B" as an interface or
\* as a class that is no superclass of "A"
CachedClassTables ==
    {[n \in ClassNames |->
         IF n = J9RELATIONSHIP_JAVA_LANG_THROWABLE_STRING
                \/ (kindOfB # "unloaded" /\ n = "A")
         THEN [kind |-> "class", supers |-> {}]
         ELSE IF n = "B"
         THEN [kind |-> kindOfB, supers |-> {}]
         ELSE [kind |-> "unloaded", supers |-> {}]] :
        kindOfB \in {"unloaded", "interface", "class"}}

\* A verification pass has filled its snippet table.
InitCache ==
    /\ classTable \in CachedClassTables
    /\ classRelationshipsHashTable = NoTable
    /\ classRelationshipsPool = NoPool
    /\ classRelationshipSnippetsHashTable \in
           {NoSnippetsTable} \cup
           {[allocated |-> TRUE, snippets |-> S] :
               S \in {T \in SUBSET CachedSnippetPairs :
                          Cardinality(T) \in 1..MaxCachedSnippets}}
    /\ alive = TRUE
    /\ ops = 0
    /\ last = NoCall
    /\ deferred = {}
    /\ failureReported = FALSE
    /\ allocFailures = 0
    /\ sharedCache = NoSharedData
    /\ snippetsDataDescriptor = [address |-> 0]
    /\ threads = <<>>
    /\ romClass = NoROMClass
    /\ annotationCall = NoAnnotationCall
    /\ utf8Area = NoUTF8Area

\* The snippets of the pass are stored to the shared cache, which holds no
\* data for the class yet (J9SHRDATA_SINGLE_STORE_FOR_KEY_TYPE).
StoreToSharedCache(dataBuffer, stored, f) ==
    /\ alive
    /\ Step
    /\ ops < MaxCacheOps
    /\ sharedCache = NoSharedData
    /\ \E order \in IterationOrders(classRelationshipSnippetsHashTable.snippets) :
       \E r \in {j9bcv_storeClassRelationshipSnippetsToSharedCache(
                     classRelationshipSnippetsHashTable, order, dataBuffer, stored, f)} :
           /\ sharedCache' = r.data
           /\ last' = [NoCall EXCEPT
                          !.op = "store",
                          !.snippets = order,
                          !.result = r.storeResult,
                          !.oom = (r.storeResult = BCV_ERR_INSUFFICIENT_MEMORY),
                          !.allocFailed = (f # 0 /\ r.a >= f),
                          !.cacheError =
                              IF f = 1 /\ r.a >= 1 THEN "key"
                              ELSE IF r.storeResult = BCV_ERR_INTERNAL_ERROR
                              THEN "storeSharedData"
                              ELSE "none"]
           /\ CountAllocFailure(f # 0 /\ r.a >= f)
    /\ UNCHANGED <<classTable, classRelationshipsHashTable, classRelationshipsPool,
                   classRelationshipSnippetsHashTable, alive, deferred,
                   failureReported, snippetsDataDescriptor, threads,
                   romClass, annotationCall, utf8Area>>

\* A verification pass asks the shared cache for the snippets of its class;
\* findSharedData answers -1 for an error, else the number of data elements
\* it has found, and maps the data at address.
FetchFromSharedCache(findSharedDataResult, address, f) ==
    /\ alive
    /\ Step
    /\ ops < MaxCacheOps
    /\ findSharedDataResult \in
           {-1} \cup (IF sharedCache = NoSharedData THEN {0} ELSE {1})
    /\ LET r == j9bcv_fetchClassRelationshipSnippetsFromSharedCache(
                    findSharedDataResult, f)
       IN  /\ snippetsDataDescriptor' =
                  [address |-> IF r.foundSnippets THEN address ELSE 0]
           /\ last' = [NoCall EXCEPT
                          !.op = "fetch",
                          !.result = r.fetchResult,
                          !.added = r.foundSnippets,
                          !.allocFailed = (f = 1),
                          !.cacheError =
                              IF f = 1 THEN "key"
                              ELSE IF findSharedDataResult = -1
                              THEN "findSharedData"
                              ELSE "none"]
           /\ CountAllocFailure(f = 1)
    /\ UNCHANGED <<classTable, classRelationshipsHashTable, classRelationshipsPool,
                   classRelationshipSnippetsHashTable, alive, deferred,
                   failureReported, sharedCache, threads,
                   romClass, annotationCall, utf8Area>>

NextCache ==
    \/ \E dataBuffer \in BufferAddresses, stored \in BOOLEAN, f \in 0..MaxFailAt :
           StoreToSharedCache(dataBuffer, stored, f)
    \/ \E findSharedDataResult \in {-1, 0, 1}, address \in CacheAddresses,
          f \in 0..1 :
           FetchFromSharedCache(findSharedDataResult, address, f)
    \/ \E f \in 0..MaxFailAt : ops < MaxCacheOps /\ Process(f)

SpecCache == InitCache /\ [][NextCache]_vars

\* ------------------------------------------ the machine with two threads
\* Threads verify classes of one loader at once.  The snippet table of a
\* pass belongs to its thread; the relationship store is the loader's.  A
\* call of j9bcv_recordClassRelationship, of
\* j9bcv_validateClassRelationships and of
\* j9bcv_freeClassRelationshipTableAndPool is one step, taken under the
\* loader's lock; the lookups of checkSnippetRelationship in the class
\* table are a step of their own before the record.

\* the threads (vmThread) verifying classes of the loader
Threads == {"vmThread1", "vmThread2"}
\* most snippets of the pass of one thread
MaxThreadSnippets == 2
\* most classes that load while the threads run
MaxThreadLoads == 2

\* the (child index, parent index) pairs of the classes the threads verify:
\* both record parents of "A", a name as long as "A" and a longer one, and
\* the second thread also the reverse of a pair of the first
ThreadSnippetPairs ==
    [vmThread1 |-> {<<1, 3>>, <<1, 2>>}, vmThread2 |-> {<<1, 2>>, <<3, 1>>}]

RECURSIVE ThreadSnippetLists(_, _)
\* the orders in which a pass can hold up to n of the pairs
ThreadSnippetLists(pairs, n) ==
    IF n = 0
    THEN {}
    ELSE ThreadSnippetLists(pairs, n - 1) \cup
         UNION {IterationOrders(S) :
                   S \in {T \in SUBSET pairs : Cardinality(T) = n}}

InitThreads ==
    /\ classTable = [n \in ClassNames |->
           IF n = J9RELATIONSHIP_JAVA_LANG_THROWABLE_STRING
           THEN [kind |-> "class", supers |-> {}]
           ELSE [kind |-> "unloaded", supers |-> {}]]
    /\ classRelationshipsHashTable = NoTable
    /\ classRelationshipsPool = NoPool
    /\ classRelationshipSnippetsHashTable = NoSnippetsTable
    /\ alive = TRUE
    /\ ops = 0
    /\ last = NoCall
    /\ deferred = {}
    /\ failureReported = FALSE
    /\ allocFailures = 0
    /\ sharedCache = NoSharedData
    /\ snippetsDataDescriptor = [address |-> 0]
    /\ threads \in
           {thread \in [Threads ->
                           [snippets : ThreadSnippetLists(
                                           UNION {ThreadSnippetPairs[t] : t \in Threads},
                                           MaxThreadSnippets),
                            i : {1}, pc : {"lookup"}, reasonCode : {BCV_SUCCESS}]] :
               \A t \in Threads :
                   thread[t].snippets \in ThreadSnippetLists(ThreadSnippetPairs[t],
                                                             MaxThreadSnippets)}
    /\ romClass = NoROMClass
    /\ annotationCall = NoAnnotationCall
    /\ utf8Area = NoUTF8Area

\* the loop of processClassRelationshipSnippetsNoCachedData moves on to the
\* next snippet of the thread's pass, or ends with BCV_SUCCESS
nextSnippet(thread) ==
    IF thread.i + 1 > Len(thread.snippets)
    THEN [thread EXCEPT !.i = @ + 1, !.pc = "done"]
    ELSE [thread EXCEPT !.i = @ + 1, !.pc = "lookup"]

\* the loop ends with the reasonCode of the snippet it is at
endOfPass(thread, reasonCode) ==
    [thread EXCEPT !.pc = "done", !.reasonCode = reasonCode]

\* checkSnippetRelationship up to its call of
\* j9bcv_recordClassRelationship: the two classes are looked up and the
\* snippet is accepted, refused or left to be recorded.
ThreadLookup(t) ==
    /\ alive
    /\ threads[t].pc = "lookup"
    /\ \E snippet \in {threads[t].snippets[threads[t].i]} :
       \E c \in {checkSnippetRelationship(
                     Store, classTable,
                     getNameAndLengthFromClassNameList(snippet[1]),
                     getNameAndLengthFromClassNameList(snippet[2]), 0, 0)} :
           /\ threads' = [threads EXCEPT ![t] =
                  IF c.recorded
                  THEN [@ EXCEPT !.pc = "record"]
                  ELSE IF c.reasonCode = BCV_SUCCESS
                  THEN nextSnippet(@)
                  ELSE endOfPass(@, c.reasonCode)]
           /\ failureReported' = (failureReported \/ (~c.recorded /\ c.reasonCode # BCV_SUCCESS))
           /\ last' = [NoCall EXCEPT !.op = "lookup"]
    /\ UNCHANGED <<classTable, classRelationshipsHashTable, classRelationshipsPool,
                   classRelationshipSnippetsHashTable, alive, ops, deferred,
                   allocFailures, sharedCache, snippetsDataDescriptor,
                   romClass, annotationCall, utf8Area>>

\* j9bcv_recordClassRelationship for the snippet the thread is at, under
\* the loader's lock.
ThreadRecord(t, f) ==
    /\ alive
    /\ threads[t].pc = "record"
    /\ \E snippet \in {threads[t].snippets[threads[t].i]} :
       \E r \in {j9bcv_recordClassRelationship(
                     Store,
                     getNameAndLengthFromClassNameList(snippet[1]),
                     getNameAndLengthFromClassNameList(snippet[2]), 0, f)} :
           /\ classRelationshipsHashTable' = r.st.table
           /\ classRelationshipsPool' = r.st.pool
           /\ threads' = [threads EXCEPT ![t] =
                  IF r.reasonCode = BCV_SUCCESS
                  THEN nextSnippet(@)
                  ELSE endOfPass(@, r.reasonCode)]
           /\ failureReported' = (failureReported \/ r.reasonCode # BCV_SUCCESS)
           /\ last' = [NoCall EXCEPT !.op = "record", !.result = r.reasonCode]
           /\ CountAllocFailure(r.reasonCode = BCV_ERR_INSUFFICIENT_MEMORY)
    /\ UNCHANGED <<classTable, classRelationshipSnippetsHashTable, alive, ops,
                   deferred, sharedCache, snippetsDataDescriptor,
                   romClass, annotationCall, utf8Area>>

NextThreads ==
    \/ \E t \in Threads : ThreadLookup(t)
    \/ \E t \in Threads, f \in 0..MaxFailAt : ThreadRecord(t, f)
    \/ \E n \in LoadableNames, kind \in {"class", "interface"},
          supers \in SUBSET ClassNames, f \in 0..MaxFailAt :
           ops < MaxThreadLoads /\ Load(n, kind, supers, f)
    \/ Teardown

SpecThreads == InitThreads /\ [][NextThreads]_vars

\* --------------------------------------- the machine with the test native
\* most verifier operations before the test native looks at the store
MaxNativeOps == 3

\* copyStringToJ9UTF8WithMemAlloc: the J9UTF8 of a string, its length and
\* then its bytes (names this short fit the stack buffer)
copyStringToJ9UTF8WithMemAlloc(nameString) ==
    [length |-> Len(nameString), data |-> nameString]

\* the classNameLength bytes at className, the bytes a key of the
\* relationship table is compared by: none for a length of 0, the name for
\* a key that holds a name and its length
keyBytes(key) ==
    IF key.classNameLength = 0 THEN "" ELSE key.className

\* relationshipHashEqualFn: J9UTF8_DATA_EQUALS on className and
\* classNameLength of the two keys
relationshipHashEqualFn(leftKey, rightKey) ==
    /\ leftKey.classNameLength = rightKey.classNameLength
    /\ J9UTF8_DATA_EQUALS(keyBytes(leftKey), keyBytes(rightKey))

\* hashTableFind on the relationship table: <<>> for NULL, <<className>> for
\* the entry that relationshipHashEqualFn finds equal to the exemplar
hashTableFind(entries, exemplar) ==
    LET equal == {className \in DOMAIN entries :
                     relationshipHashEqualFn(
                         [className |-> className, classNameLength |-> Len(className)],
                         exemplar)}
    IN  IF equal = {} THEN <<>> ELSE <<CHOOSE className \in equal : TRUE>>

\* Java_..._TestClassRelationshipVerifier_isRelationshipRecorded: the set
\* of the results the native can return.  The exemplar is zeroed and only
\* its className is set, to the J9UTF8 of the child name; a node's
\* className, the bytes of a name, is compared as if it were a J9UTF8, which
\* reads a length out of the name's bytes, so that either result can come
\* of the comparison.
isRelationshipRecorded(st, childNameString, parentNameString) ==
    IF ~st.table.allocated
    THEN {FALSE}
    ELSE LET childName == copyStringToJ9UTF8WithMemAlloc(childNameString)
             exemplar == [className |-> childName, classNameLength |-> 0]
             childEntry == hashTableFind(st.table.entries, exemplar)
         IN  IF childEntry = <<>>
             THEN {FALSE}
             ELSE IF st.table.entries[childEntry[1]].root = <<>>
             THEN {FALSE}
             ELSE BOOLEAN

\* The test asks whether a relationship is recorded.
IsRelationshipRecorded(childNameString, parentNameString) ==
    /\ alive
    /\ \E isRecorded \in isRelationshipRecorded(Store, childNameString, parentNameString) :
           last' = [NoCall EXCEPT !.op = "isRelationshipRecorded",
                       !.snippets = <<<<childNameString, parentNameString>>>>,
                       !.added = isRecorded]
    /\ UNCHANGED <<classTable, classRelationshipsHashTable, classRelationshipsPool,
                   classRelationshipSnippetsHashTable, alive, ops, deferred,
                   failureReported, allocFailures, sharedCache,
                   snippetsDataDescriptor, threads,
                   romClass, annotationCall, utf8Area>>

NextNative ==
    \/ \E c \in ClassNameIndices, p \in ClassNameIndices :
           ops < MaxNativeOps /\ RecordSnippet(c, p, 0)
    \/ ops < MaxNativeOps /\ Process(0)
    \/ \E n \in LoadableNames, kind \in {"class", "interface"},
          supers \in SUBSET ClassNames :
           ops < MaxNativeOps /\ Load(n, kind, supers, 0)
    \/ \E childNameString \in ClassNames, parentNameString \in ClassNames :
           IsRelationshipRecorded(childNameString, parentNameString)

SpecNative == Init /\ [][NextNative]_vars

\* ------------------------------------------ the runtime annotation lookup
\*
\* fieldContainsRuntimeAnnotation and methodContainsRuntimeAnnotation look a
\* member of a ROM class up by the name and signature of a constant pool
\* reference and scan the member's annotation data for an annotation type
\* name.  The data is a sequence of bytes; the scan reads it through `index`
\* and compares `index` with `dataEnd`.

\* most annotations of a member and most element-value pairs of an annotation
MaxAnnotations == 2

MaxElementValuePairs == 1

\* the constant pool of the class: the two annotation classes, then the utf8
\* items "value" and "RuntimeVisibleAnnotations"
AnnotationNames == {"MyFieldAnnotation", "MyMethodAnnotation"}

ConstantPool == <<"MyFieldAnnotation", "MyMethodAnnotation", "value",
                  "RuntimeVisibleAnnotations">>

ClassRefIndexes == {1, 2}

ElementNameIndex == 3

AttributeNameIndex == 4

\* J9ROMCLASSREF_NAME of the constant pool item: ok is FALSE when the item is
\* not a class reference of the pool
J9ROMCLASSREF_NAME(cpIndex) ==
    IF cpIndex \in ClassRefIndexes
    THEN [ok |-> TRUE, name |-> ConstantPool[cpIndex]]
    ELSE [ok |-> FALSE, name |-> ""]

\* the tags of the element values skipAnnotationElement knows
ConstValueTags == {66, 67, 68, 70, 73, 74, 83, 90, 115, 99}

EnumTag == 101

AnnotationTag == 64

ArrayTag == 91

\* the element values of the members' annotations: an int constant and an
\* array holding one string constant
ElementValues ==
    {[tag |-> 73, values |-> <<>>],
     [tag |-> ArrayTag, values |-> <<[tag |-> 115, values |-> <<>>]>>]}

\* the bytes of a two-byte and of a four-byte item, most significant first
U16Bytes(value) == <<value \div 256, value % 256>>

U32Bytes(value) == U16Bytes(value \div 65536) \o U16Bytes(value % 65536)

RECURSIVE Flatten(_)
Flatten(byteSeqs) ==
    IF byteSeqs = <<>> THEN <<>> ELSE Head(byteSeqs) \o Flatten(Tail(byteSeqs))

\* the bytes of an element value: the tag, then the constant's pool index or
\* the count and the values of the array
RECURSIVE elementValueBytes(_)
elementValueBytes(elementValue) ==
    IF elementValue.tag = ArrayTag
    THEN <<ArrayTag>> \o U16Bytes(Len(elementValue.values))
             \o Flatten([i \in 1..Len(elementValue.values) |->
                            elementValueBytes(elementValue.values[i])])
    ELSE <<elementValue.tag>> \o U16Bytes(ElementNameIndex)

\* the bytes of an annotation: type_index, num_element_value_pairs, then for
\* each pair element_name_index and the value
annotationBytes(annotation) ==
    U16Bytes(CHOOSE i \in ClassRefIndexes : ConstantPool[i] = annotation.typeName)
        \o U16Bytes(Len(annotation.elementValuePairs))
        \o Flatten([i \in 1..Len(annotation.elementValuePairs) |->
                       U16Bytes(ElementNameIndex)
                           \o elementValueBytes(annotation.elementValuePairs[i])])

\* the annotation data of a member: num_annotations and the annotations,
\* after attribute_name_index and attribute_length when the data holds the
\* attribute's header
annotationsData(annotations, withHeader) ==
    LET body == U16Bytes(Len(annotations))
                    \o Flatten([i \in 1..Len(annotations) |->
                                   annotationBytes(annotations[i])])
    IN  IF withHeader
        THEN U16Bytes(AttributeNameIndex) \o U32Bytes(Len(body)) \o body
        ELSE body

RECURSIVE SeqsUpTo(_, _)
SeqsUpTo(S, n) ==
    IF n = 0 THEN {<<>>}
    ELSE SeqsUpTo(S, n - 1) \cup
         {Append(q, x) : q \in {r \in SeqsUpTo(S, n - 1) : Len(r) = n - 1}, x \in S}

\* the annotations a member can be declared with
Annotations ==
    [typeName : AnnotationNames,
     elementValuePairs : SeqsUpTo(ElementValues, MaxElementValuePairs)]

\* CHECK_EOF: the read of nextRead bytes at index would pass dataEnd
CHECK_EOF(index, nextRead, dataEnd) == index + nextRead > dataEnd

\* the bytes of the read lie inside the data handed to the scan
InData(data, index, nextRead) == index + nextRead <= Len(data)

NEXT_U8(data, index) == data[index + 1]

NEXT_U16(data, index) == data[index + 1] * 256 + data[index + 2]

NEXT_U32(data, index) ==
    NEXT_U16(data, index) * 65536 + NEXT_U16(data, index + 2)

\* the result of a step of the scan: the value returned, the index reached
\* and whether the step read outside the data or the constant pool
Scanned(result, index) == [result |-> result, index |-> index, undefined |-> FALSE]

Undefined(index) == [result |-> 0, index |-> index, undefined |-> TRUE]

\* skipAnnotationElement reads the tag at index; the skips of the items that
\* follow the tag advance `data`, which no read uses, and leave `index`
RECURSIVE skipAnnotationElement(_, _, _)
RECURSIVE skipAnnotationElements(_, _, _, _)
skipAnnotationElement(data, index, dataEnd) ==
    IF CHECK_EOF(index, 1, dataEnd) THEN Scanned(-1, index)
    ELSE IF ~InData(data, index, 1) THEN Undefined(index)
    ELSE LET tag == NEXT_U8(data, index)
             afterTag == index + 1
         IN  IF tag \in ConstValueTags
             THEN IF CHECK_EOF(afterTag, 2, dataEnd)
                  THEN Scanned(-1, afterTag) ELSE Scanned(0, afterTag)
             ELSE IF tag = EnumTag
             THEN IF CHECK_EOF(afterTag, 4, dataEnd)
                  THEN Scanned(-1, afterTag) ELSE Scanned(0, afterTag)
             ELSE IF tag = AnnotationTag
             THEN IF CHECK_EOF(afterTag, 4, dataEnd) THEN Scanned(-1, afterTag)
                  ELSE IF ~InData(data, afterTag, 2) THEN Undefined(afterTag)
                  ELSE skipAnnotationElements(data, afterTag + 2, dataEnd,
                                              NEXT_U16(data, afterTag))
             ELSE IF tag = ArrayTag
             THEN IF CHECK_EOF(afterTag, 2, dataEnd) THEN Scanned(-1, afterTag)
                  ELSE IF ~InData(data, afterTag, 2) THEN Undefined(afterTag)
                  ELSE skipAnnotationElements(data, afterTag + 2, dataEnd,
                                              NEXT_U16(data, afterTag))
             ELSE Scanned(-1, afterTag)

\* the loops of skipAnnotationElement over the values of an array or of a
\* nested annotation, while the result is 0
skipAnnotationElements(data, index, dataEnd, count) ==
    IF count = 0 THEN Scanned(0, index)
    ELSE \* bound once
         CHOOSE r \in {IF skipped.undefined \/ skipped.result # 0 THEN skipped
                       ELSE skipAnnotationElements(data, skipped.index, dataEnd,
                                                   count - 1) :
                          skipped \in {skipAnnotationElement(data, index, dataEnd)}} :
             TRUE

\* the while loop of getAnnotationByType over the pairs of an annotation of
\* another type: -2 on the first element that cannot be skipped
RECURSIVE skipElementValuePairs(_, _, _, _)
skipElementValuePairs(data, index, dataEnd, numElementValuePairs) ==
    IF numElementValuePairs = 0 THEN Scanned(-1, index)
    ELSE CHOOSE r \in {IF skipped.undefined THEN skipped
                       ELSE IF skipped.result # 0 THEN Scanned(-2, skipped.index)
                       ELSE skipElementValuePairs(data, skipped.index, dataEnd,
                                                  numElementValuePairs - 1) :
                          skipped \in {skipAnnotationElement(data, index, dataEnd)}} :
             TRUE

\* getAnnotationByType: the number of element-value pairs of the first
\* annotation whose type name is searchString, -1 when numAnnotations
\* annotations were read without a match, -2 on an error
RECURSIVE getAnnotationByType(_, _, _, _, _, _)
getAnnotationByType(searchString, numAnnotations, data, index, dataEnd, annCount) ==
    IF annCount >= numAnnotations THEN Scanned(-1, index)
    ELSE IF CHECK_EOF(index, 2, dataEnd) THEN Scanned(-2, index)
    ELSE IF ~InData(data, index, 2) THEN Undefined(index)
    ELSE IF CHECK_EOF(index + 2, 2, dataEnd) THEN Scanned(-2, index + 2)
    ELSE IF ~InData(data, index + 2, 2) THEN Undefined(index + 2)
    ELSE LET className == J9ROMCLASSREF_NAME(NEXT_U16(data, index))
             numElementValuePairs == NEXT_U16(data, index + 2)
         IN  IF ~className.ok THEN Undefined(index + 4)
             ELSE IF className.name = searchString
             THEN Scanned(numElementValuePairs, index + 4)
             ELSE CHOOSE r \in
                      {IF skipped.undefined \/ skipped.result # -1 THEN skipped
                       ELSE getAnnotationByType(searchString, numAnnotations, data,
                                                skipped.index, dataEnd, annCount + 1) :
                          skipped \in {skipElementValuePairs(data, index + 4, dataEnd,
                                                             numElementValuePairs)}} :
                      TRUE

\* the test findRuntimeVisibleAnnotation makes of getAnnotationByType's result
getAnnotationResultFound(getAnnotationResult) == getAnnotationResult > 0

\* findRuntimeVisibleAnnotation: eofAtNull is the outcome of the two
\* CHECK_EOF comparisons made while dataEnd is still NULL
findRuntimeVisibleAnnotation(data, annotationName, eofAtNull) ==
    IF eofAtNull THEN [found |-> FALSE, undefined |-> FALSE]
    ELSE IF ~InData(data, 0, 4) THEN [found |-> FALSE, undefined |-> TRUE]
    ELSE LET attributeLength == NEXT_U32(data, 0)
             dataEnd == 2 + attributeLength
         IN  IF CHECK_EOF(4, 2, dataEnd) THEN [found |-> FALSE, undefined |-> FALSE]
             ELSE IF ~InData(data, 4, 2) THEN [found |-> FALSE, undefined |-> TRUE]
             ELSE CHOOSE r \in
                      {[found |-> getAnnotationResultFound(scanned.result),
                        undefined |-> scanned.undefined] :
                          scanned \in {getAnnotationByType(annotationName,
                                           NEXT_U16(data, 4), data, 6, dataEnd, 0)}} :
                      TRUE

\* getFieldShapeFromFieldRef and getMethodFromMethodRef: the first member
\* whose name and signature are those of the reference, or none
NoMember == [name |-> "", annotations |-> <<>>, data |-> <<>>]

RECURSIVE getFieldShapeFromFieldRef(_, _)
getFieldShapeFromFieldRef(romFields, romFieldRef) ==
    IF romFields = <<>> THEN NoMember
    ELSE IF Head(romFields).name = romFieldRef THEN Head(romFields)
    ELSE getFieldShapeFromFieldRef(Tail(romFields), romFieldRef)

RECURSIVE getMethodFromMethodRef(_, _)
getMethodFromMethodRef(romMethods, romMethodRef) ==
    IF romMethods = <<>> THEN NoMember
    ELSE IF Head(romMethods).name = romMethodRef THEN Head(romMethods)
    ELSE getMethodFromMethodRef(Tail(romMethods), romMethodRef)

fieldContainsRuntimeAnnotation(clazz, cpIndex, annotationName, eofAtNull) ==
    LET romFieldShape == getFieldShapeFromFieldRef(clazz.romFields, cpIndex)
    IN  IF romFieldShape # NoMember
        THEN findRuntimeVisibleAnnotation(romFieldShape.data, annotationName, eofAtNull)
        ELSE [found |-> FALSE, undefined |-> FALSE]

methodContainsRuntimeAnnotation(clazz, cpIndex, annotationName, eofAtNull) ==
    LET romMethod == getMethodFromMethodRef(clazz.romMethods, cpIndex)
    IN  IF romMethod # NoMember
        THEN findRuntimeVisibleAnnotation(romMethod.data, annotationName, eofAtNull)
        ELSE [found |-> FALSE, undefined |-> FALSE]

\* the members the constant pool's references name
MemberRefs == {"myField", "myMethod"}

\* the ROM classes under lookup: a class declaring the field myField or the
\* method myMethod with up to MaxAnnotations annotations
ROMMember(name, annotations, withHeader) ==
    [name |-> name, annotations |-> annotations,
     data |-> annotationsData(annotations, withHeader)]

InitAnnotation ==
    /\ classTable = [n \in ClassNames |->
           IF n = J9RELATIONSHIP_JAVA_LANG_THROWABLE_STRING
           THEN [kind |-> "class", supers |-> {}]
           ELSE [kind |-> "unloaded", supers |-> {}]]
    /\ classRelationshipsHashTable = NoTable
    /\ classRelationshipsPool = NoPool
    /\ classRelationshipSnippetsHashTable = NoSnippetsTable
    /\ alive = TRUE
    /\ ops = 0
    /\ last = NoCall
    /\ deferred = {}
    /\ failureReported = FALSE
    /\ allocFailures = 0
    /\ sharedCache = NoSharedData
    /\ snippetsDataDescriptor = [address |-> 0]
    /\ threads = <<>>
    /\ \E annotations \in SeqsUpTo(Annotations, MaxAnnotations), withHeader \in BOOLEAN :
           romClass \in
               {[romFields |-> <<ROMMember("myField", annotations, withHeader)>>,
                 romMethods |-> <<>>],
                [romFields |-> <<>>,
                 romMethods |-> <<ROMMember("myMethod", annotations, withHeader)>>]}
    /\ annotationCall = NoAnnotationCall
    /\ utf8Area = NoUTF8Area

\* The test asks whether the field of a reference carries an annotation.
FieldContainsRuntimeAnnotation(cpIndex, annotationName, eofAtNull) ==
    /\ annotationCall.op = "none"
    /\ \E r \in {fieldContainsRuntimeAnnotation(romClass, cpIndex, annotationName,
                                                eofAtNull)} :
           \E annotationFound \in (IF r.undefined THEN BOOLEAN ELSE {r.found}) :
               annotationCall' = [op |-> "fieldContainsRuntimeAnnotation",
                                  cpIndex |-> cpIndex,
                                  annotationName |-> annotationName,
                                  result |-> annotationFound]
    /\ UNCHANGED <<classTable, classRelationshipsHashTable, classRelationshipsPool,
                   classRelationshipSnippetsHashTable, alive, ops, last, deferred,
                   failureReported, allocFailures, sharedCache,
                   snippetsDataDescriptor, threads, romClass,
                   utf8Area>>

\* The test asks whether the method of a reference carries an annotation.
MethodContainsRuntimeAnnotation(cpIndex, annotationName, eofAtNull) ==
    /\ annotationCall.op = "none"
    /\ \E r \in {methodContainsRuntimeAnnotation(romClass, cpIndex, annotationName,
                                                 eofAtNull)} :
           \E annotationFound \in (IF r.undefined THEN BOOLEAN ELSE {r.found}) :
               annotationCall' = [op |-> "methodContainsRuntimeAnnotation",
                                  cpIndex |-> cpIndex,
                                  annotationName |-> annotationName,
                                  result |-> annotationFound]
    /\ UNCHANGED <<classTable, classRelationshipsHashTable, classRelationshipsPool,
                   classRelationshipSnippetsHashTable, alive, ops, last, deferred,
                   failureReported, allocFailures, sharedCache,
                   snippetsDataDescriptor, threads, romClass,
                   utf8Area>>

NextAnnotation ==
    \/ \E cpIndex \in MemberRefs, annotationName \in AnnotationNames,
          eofAtNull \in BOOLEAN :
           FieldContainsRuntimeAnnotation(cpIndex, annotationName, eofAtNull)
    \/ \E cpIndex \in MemberRefs, annotationName \in AnnotationNames,
          eofAtNull \in BOOLEAN :
           MethodContainsRuntimeAnnotation(cpIndex, annotationName, eofAtNull)

SpecAnnotation == InitAnnotation /\ [][NextAnnotation]_vars

\* ------------------------------------------ the machine of record calls
\*
\* j9bcv_recordClassRelationship called on its own, in any order and any
\* number of times, while no class but java/lang/Throwable is loaded.

\* most record calls of a run
MaxRecords == 4

RecordClassRelationship(childClassNameIndex, parentClassNameIndex, f) ==
    /\ alive
    /\ ops < MaxRecords
    /\ ops' = ops + 1
    /\ <<childClassNameIndex, parentClassNameIndex>> \in SnippetPairs
    /\ \E childClassName \in {getNameAndLengthFromClassNameList(childClassNameIndex)},
          parentClassName \in {getNameAndLengthFromClassNameList(parentClassNameIndex)} :
       \E r \in {j9bcv_recordClassRelationship(Store, childClassName,
                                               parentClassName, 0, f)} :
           /\ classRelationshipsHashTable' = r.st.table
           /\ classRelationshipsPool' = r.st.pool
           /\ deferred' = IF r.reasonCode = BCV_SUCCESS
                          THEN deferred \cup
                                   {<<childClassName, parentClassName,
                                      hashClassTableAt(classTable, childClassName) # NULL,
                                      hashClassTableAt(classTable, parentClassName) # NULL>>}
                          ELSE deferred
           /\ failureReported' = (failureReported \/ r.reasonCode # BCV_SUCCESS)
           /\ last' = [NoCall EXCEPT !.op = "record",
                          !.snippets = <<<<childClassNameIndex, parentClassNameIndex>>>>,
                          !.result = r.reasonCode,
                          !.oom = (r.reasonCode = BCV_ERR_INSUFFICIENT_MEMORY),
                          !.allocFailed = (f # 0 /\ r.a >= f)]
           /\ CountAllocFailure(r.reasonCode = BCV_ERR_INSUFFICIENT_MEMORY)
    /\ UNCHANGED <<classTable, classRelationshipSnippetsHashTable, alive,
                   sharedCache, snippetsDataDescriptor, threads,
                   romClass, annotationCall, utf8Area>>

NextRecord ==
    \E childClassNameIndex, parentClassNameIndex \in ClassNameIndices,
       f \in 0..MaxFailAt :
        RecordClassRelationship(childClassNameIndex, parentClassNameIndex, f)

SpecRecord == Init /\ [][NextRecord]_vars

\* ------------------------------- the machine of unsynchronised record calls
\* Two threads call j9bcv_recordClassRelationship for the same child with no
\* lock held.  A call is two steps: the first runs to the end of the walk
\* of the parents list (lines 891-962), the second allocates the node and
\* links it where the walk said (lines 963-977).  Steps of the two threads
\* interleave freely.

\* most record calls of one thread
MaxRaceCalls == 2

\* the (child index, parent index) pairs the threads record: parents of "A"
\* with a name as long as its own, a longer one, and java/lang/Throwable
RacePairs == {<<1, 2>>, <<1, 3>>, <<1, 4>>}

RECURSIVE RaceCalls(_)
\* the sequences of one to n pairs a thread records
RaceCalls(n) ==
    IF n = 0
    THEN {}
    ELSE RaceCalls(n - 1) \cup [1..n -> RacePairs]

\* the end of the walk of j9bcv_recordClassRelationship once the entry is in
\* hand: the flag is set for java/lang/Throwable; otherwise pending holds
\* addBefore and the node the walk stopped at, and is empty when the name
\* is already present
walkForParent(st, childClassName, parentClassName, a) ==
    LET entry == st.table.entries[childClassName] IN
    IF J9UTF8_DATA_EQUALS(J9RELATIONSHIP_JAVA_LANG_THROWABLE_STRING, parentClassName)
    THEN [st |-> [st EXCEPT !.table.entries[childClassName].flags =
                        @ \cup {J9RELATIONSHIP_PARENT_CLASS_IS_THROWABLE}],
          a |-> a, reasonCode |-> BCV_SUCCESS, pending |-> <<>>]
    ELSE IF entry.root = <<>>
    THEN [st |-> st, a |-> a, reasonCode |-> BCV_SUCCESS,
          pending |-> <<[addBefore |-> FALSE, walk |-> NULL]>>]
    ELSE LET w == walkParents(entry.root, 1, parentClassName)
         IN  IF w.alreadyPresent
             THEN [st |-> st, a |-> a, reasonCode |-> BCV_SUCCESS, pending |-> <<>>]
             ELSE [st |-> st, a |-> a, reasonCode |-> BCV_SUCCESS,
                   pending |-> <<[addBefore |-> w.addBefore,
                                  walk |-> IF w.addBefore
                                           THEN entry.root[w.walk]
                                           ELSE NULL]>>]

\* j9bcv_recordClassRelationship up to the end of the walk:
\* [st, a, reasonCode, pending]
recordUpToWalk(st0, childClassName, parentClassName, a0, f) ==
    LET alloc == IF st0.table.allocated
                 THEN [st |-> st0, a |-> a0, result |-> 0]
                 ELSE allocateClassRelationshipTableAndPool(st0, a0, f)
        st1 == alloc.st
        a1 == alloc.a
        oom == [st |-> st1, a |-> a1, reasonCode |-> BCV_ERR_INSUFFICIENT_MEMORY,
                pending |-> <<>>]
    IN
    IF alloc.result # 0
    THEN oom
    ELSE IF findClassRelationship(st1, childClassName) # <<>>
    THEN walkForParent(st1, childClassName, parentClassName, a1)
    ELSE IF AllocFails(a1, f)
    THEN [oom EXCEPT !.a = a1 + 1]
    ELSE IF AllocFails(a1 + 1, f)
    THEN [oom EXCEPT !.a = a1 + 2]
    ELSE walkForParent(
            [st1 EXCEPT !.table.entries =
                hashTableAdd(@, childClassName, [flags |-> {}, root |-> <<>>])],
            childClassName, parentClassName, a1 + 2)

\* the place in the list of the node the walk stopped at.  Nodes that carry
\* the name of that node are linked behind it only (J9_LINKED_LIST_ADD_LAST,
\* or before a node with a longer name, which the walk would have stopped
\* at), so it is the first node of that name.
walkNodeIndex(root, walk) ==
    CHOOSE k \in DOMAIN root :
        root[k] = walk /\ \A j \in 1..(k - 1) : root[j] # walk

\* the links of lines 970-976 always made at the tail
spliceParentNode_AlwaysLast(root, pending, parentClassNode) ==
    J9_LINKED_LIST_ADD_LAST(root, parentClassNode)

\* the links of lines 970-976: before the node of the walk, or at the tail
spliceParentNode(root, pending, parentClassNode) ==
    IF pending.addBefore
    THEN J9_LINKED_LIST_ADD_BEFORE(root, walkNodeIndex(root, pending.walk),
                                   parentClassNode)
    ELSE J9_LINKED_LIST_ADD_LAST(root, parentClassNode)

InitRace ==
    /\ classTable = [n \in ClassNames |->
           IF n = J9RELATIONSHIP_JAVA_LANG_THROWABLE_STRING
           THEN [kind |-> "class", supers |-> {}]
           ELSE [kind |-> "unloaded", supers |-> {}]]
    /\ classRelationshipsHashTable = NoTable
    /\ classRelationshipsPool = NoPool
    /\ classRelationshipSnippetsHashTable = NoSnippetsTable
    /\ alive = TRUE
    /\ ops = 0
    /\ last = NoCall
    /\ deferred = {}
    /\ failureReported = FALSE
    /\ allocFailures = 0
    /\ sharedCache = NoSharedData
    /\ snippetsDataDescriptor = [address |-> 0]
    /\ threads \in [Threads -> [calls : RaceCalls(MaxRaceCalls), i : {1},
                                pc : {"walk"}, pending : {<<>>}, seen : {<<>>},
                                reasonCode : {BCV_SUCCESS}]]
    /\ romClass = NoROMClass
    /\ annotationCall = NoAnnotationCall
    /\ utf8Area = NoUTF8Area

\* the thread goes on to its next call, or has made them all
nextCall(thread) ==
    IF thread.i + 1 > Len(thread.calls)
    THEN [thread EXCEPT !.i = @ + 1, !.pc = "done", !.pending = <<>>]
    ELSE [thread EXCEPT !.i = @ + 1, !.pc = "walk", !.pending = <<>>]

\* the pass of the thread ends with the reasonCode of the failed call
endOfCalls(thread, reasonCode) ==
    [thread EXCEPT !.pc = "done", !.pending = <<>>, !.reasonCode = reasonCode]

\* The thread runs j9bcv_recordClassRelationship to the end of the walk;
\* seen is the list the walk went through.
RaceWalk(t, f) ==
    /\ threads[t].pc = "walk"
    /\ \E call \in {threads[t].calls[threads[t].i]} :
       \E childClassName \in {getNameAndLengthFromClassNameList(call[1])},
          parentClassName \in {getNameAndLengthFromClassNameList(call[2])} :
       \E r \in {recordUpToWalk(Store, childClassName, parentClassName, 0, f)} :
           /\ classRelationshipsHashTable' = r.st.table
           /\ classRelationshipsPool' = r.st.pool
           /\ threads' = [threads EXCEPT ![t] =
                  IF r.reasonCode # BCV_SUCCESS
                  THEN endOfCalls(@, r.reasonCode)
                  ELSE IF r.pending = <<>>
                  THEN nextCall(@)
                  ELSE [@ EXCEPT !.pc = "splice", !.pending = r.pending,
                                 !.seen = r.st.table.entries[childClassName].root]]
           /\ failureReported' = (failureReported \/ r.reasonCode # BCV_SUCCESS)
           /\ last' = [NoCall EXCEPT !.op = "walk", !.result = r.reasonCode]
           /\ CountAllocFailure(r.reasonCode = BCV_ERR_INSUFFICIENT_MEMORY)
    /\ UNCHANGED <<classTable, classRelationshipSnippetsHashTable, alive, ops,
                   deferred, sharedCache, snippetsDataDescriptor,
                   romClass, annotationCall, utf8Area>>

\* The thread allocates the node and links it where its walk said, into the
\* list as it is now.
RaceSplice(t, f) ==
    /\ threads[t].pc = "splice"
    /\ \E call \in {threads[t].calls[threads[t].i]} :
       \E childClassName \in {getNameAndLengthFromClassNameList(call[1])},
          parentClassName \in {getNameAndLengthFromClassNameList(call[2])} :
       \E n \in {allocateClassRelationshipNode(Store, parentClassName, 0, f)} :
           /\ classRelationshipsPool' = n.st.pool
           /\ classRelationshipsHashTable' =
                  IF n.node = <<>>
                  THEN classRelationshipsHashTable
                  ELSE [classRelationshipsHashTable EXCEPT
                            !.entries[childClassName].root =
                                spliceParentNode(@, threads[t].pending[1], n.node[1])]
           /\ threads' = [threads EXCEPT ![t] =
                  IF n.node = <<>>
                  THEN endOfCalls(@, BCV_ERR_INSUFFICIENT_MEMORY)
                  ELSE nextCall(@)]
           /\ ops' = IF n.node = <<>> THEN ops ELSE ops + 1
           /\ failureReported' = (failureReported \/ n.node = <<>>)
           /\ last' = [NoCall EXCEPT !.op = "splice",
                                     !.result = IF n.node = <<>>
                                                THEN BCV_ERR_INSUFFICIENT_MEMORY
                                                ELSE BCV_SUCCESS]
           /\ CountAllocFailure(n.node = <<>>)
    /\ UNCHANGED <<classTable, classRelationshipSnippetsHashTable, alive,
                   deferred, sharedCache, snippetsDataDescriptor,
                   romClass, annotationCall, utf8Area>>

NextRace ==
    \/ \E t \in Threads, f \in 0..MaxFailAt : RaceWalk(t, f)
    \/ \E t \in Threads, f \in 0..MaxFailAt : RaceSplice(t, f)

SpecRace == InitRace /\ [][NextRace]_vars

\* --------------------------- the machine sizing the class name section
\* The data buffer is sized by getTotalUTF8Size and then written by
\* storeToDataBuffer.  Only the lengths of the class names matter here: a
\* class name is its index in the class name list and the length the J9UTF8
\* of that index holds in its U_16.

\* most snippets of a table whose buffer is sized
MaxSizedSnippets == 3
\* the indexes of the class name list the snippets use
SizedIndices == 1..3
\* lengths a J9UTF8 can hold in its U_16 length: the ends of the range and
\* their neighbours
ClassNameLengths == {0, 1, 65534, 65535}
\* the snippets of the tables: a name as child and parent of one snippet,
\* and names that recur in several snippets
SizedSnippetPairs == {<<1, 1>>, <<1, 2>>, <<2, 1>>, <<2, 3>>}

\* setCurrentAndNextUTF8s: the bytes of a name in the buffer, the name, its
\* terminator and the U_16 length
utf8AddressSize(classNameLength) == classNameLength + 1 + 2

\* The writer's position w is [next, written, classNamesArray,
\* classNamesHashTable]: next is the distance of nextUTF8Address from
\* dataBufferUTF8Start, written the end of the bytes written so far.

\* setCurrentAndNextUTF8s writes the name of the index at nextUTF8Address
writeUTF8(w, lengths, classNameIndex) ==
    [w EXCEPT !.written =
        IF w.next + utf8AddressSize(lengths[classNameIndex]) > @
        THEN w.next + utf8AddressSize(lengths[classNameIndex])
        ELSE @]

\* getUTF8Address: the name is written and nextUTF8Address moves past it
sizedUTF8Address(w, lengths, classNameIndex) ==
    [writeUTF8(w, lengths, classNameIndex) EXCEPT
        !.next = @ + utf8AddressSize(lengths[classNameIndex])]

\* getUTF8AddressFromArray with no allocation failing: an index the array
\* holds is not written again
sizedUTF8AddressFromArray(w, lengths, classNameIndex) ==
    IF \E i \in DOMAIN w.classNamesArray : w.classNamesArray[i] = classNameIndex
    THEN w
    ELSE [writeUTF8(w, lengths, classNameIndex) EXCEPT
             !.next = @ + utf8AddressSize(lengths[classNameIndex]),
             !.classNamesArray = Append(@, classNameIndex)]

\* relationshipClassNameHashEqualFn on the names of two indexes: the names
\* of two indexes differ unless both are empty
sizedClassNameEqual(lengths, leftIndex, rightIndex) ==
    \/ leftIndex = rightIndex
    \/ (lengths[leftIndex] = 0 /\ lengths[rightIndex] = 0)

\* getUTF8AddressFromHashTable: the name is written at nextUTF8Address
\* before it is looked up; nextUTF8Address moves only for a new name
sizedUTF8AddressFromHashTable(w, lengths, classNameIndex) ==
    IF \E entry \in w.classNamesHashTable :
           sizedClassNameEqual(lengths, entry, classNameIndex)
    THEN writeUTF8(w, lengths, classNameIndex)
    ELSE [writeUTF8(w, lengths, classNameIndex) EXCEPT
             !.next = @ + utf8AddressSize(lengths[classNameIndex]),
             !.classNamesHashTable = @ \cup {classNameIndex}]

\* the loop of storeToDataBuffer over the snippets, from snippet i on
RECURSIVE sizedStoreSnippets(_, _, _, _, _)
sizedStoreSnippets(order, i, w, snippetConfig, lengths) ==
    IF i > Len(order)
    THEN w
    ELSE LET utf8AddressOf(at, classNameIndex) ==
                 IF snippetConfig = J9RELATIONSHIP_SNIPPET_USE_HASHTABLE
                 THEN sizedUTF8AddressFromHashTable(at, lengths, classNameIndex)
                 ELSE IF snippetConfig = J9RELATIONSHIP_SNIPPET_USE_ARRAY
                 THEN sizedUTF8AddressFromArray(at, lengths, classNameIndex)
                 ELSE sizedUTF8Address(at, lengths, classNameIndex)
         IN  sizedStoreSnippets(
                 order, i + 1,
                 utf8AddressOf(utf8AddressOf(w, order[i][1]), order[i][2]),
                 snippetConfig, lengths)

\* storeToDataBuffer: the end of the bytes written into the class name
\* section, as a distance from dataBufferUTF8Start
sizedStoreToDataBuffer(order, lengths) ==
    LET snippetCount == Len(order)
        snippetConfig ==
            IF snippetCount = 1 THEN J9RELATIONSHIP_SNIPPET_SINGLE
            ELSE IF snippetCount > J9RELATIONSHIP_SNIPPET_COUNT_THRESHOLD
            THEN J9RELATIONSHIP_SNIPPET_USE_HASHTABLE
            ELSE J9RELATIONSHIP_SNIPPET_USE_ARRAY
    IN  sizedStoreSnippets(order, 1,
                           [next |-> 0, written |-> 0, classNamesArray |-> <<>>,
                            classNamesHashTable |-> {}],
                           snippetConfig, lengths).written

\* getTotalUTF8Size: childClassNameLength and parentClassNameLength are
\* U_16, so the length plus one is kept modulo 2^16; each is added with the
\* size of a U_16
RECURSIVE sizedTotalUTF8Size(_, _, _)
sizedTotalUTF8Size(order, i, lengths) ==
    IF i > Len(order)
    THEN 0
    ELSE LET childClassNameLength == (lengths[order[i][1]] + 1) % 65536
             parentClassNameLength == (lengths[order[i][2]] + 1) % 65536
         IN  childClassNameLength + 2 + parentClassNameLength + 2
             + sizedTotalUTF8Size(order, i + 1, lengths)

\* A pass has filled its snippet table with names of the given lengths.
InitSized ==
    /\ classTable = [n \in ClassNames |->
           IF n = J9RELATIONSHIP_JAVA_LANG_THROWABLE_STRING
           THEN [kind |-> "class", supers |-> {}]
           ELSE [kind |-> "unloaded", supers |-> {}]]
    /\ classRelationshipsHashTable = NoTable
    /\ classRelationshipsPool = NoPool
    /\ classRelationshipSnippetsHashTable = NoSnippetsTable
    /\ alive = TRUE
    /\ ops = 0
    /\ last = NoCall
    /\ deferred = {}
    /\ failureReported = FALSE
    /\ allocFailures = 0
    /\ sharedCache = NoSharedData
    /\ snippetsDataDescriptor = [address |-> 0]
    /\ threads = <<>>
    /\ romClass = NoROMClass
    /\ annotationCall = NoAnnotationCall
    /\ utf8Area \in
           {[NoUTF8Area EXCEPT !.lengths = lengths, !.snippets = S] :
               lengths \in [SizedIndices -> ClassNameLengths],
               S \in {T \in SUBSET SizedSnippetPairs :
                          Cardinality(T) \in 1..MaxSizedSnippets}}

\* j9bcv_storeClassRelationshipSnippetsToSharedCache sizes the buffer and
\* storeToDataBuffer writes the names of the table, walked in some order.
SizeAndStore ==
    /\ utf8Area.op = "none"
    /\ \E order \in IterationOrders(utf8Area.snippets) :
           utf8Area' = [utf8Area EXCEPT
               !.op = "store",
               !.order = order,
               !.utf8SizeTotal = sizedTotalUTF8Size(order, 1, utf8Area.lengths),
               !.written = sizedStoreToDataBuffer(order, utf8Area.lengths)]
    /\ UNCHANGED <<classTable, classRelationshipsHashTable, classRelationshipsPool,
                   classRelationshipSnippetsHashTable, alive, ops, last, deferred,
                   failureReported, allocFailures, sharedCache,
                   snippetsDataDescriptor, threads, romClass, annotationCall>>

NextSized == SizeAndStore

SpecSized == InitSized /\ [][NextSized]_vars

TypeOK ==
    /\ alive \in BOOLEAN
    /\ ops \in 0..MaxOps
    /\ classRelationshipsPool.numElements >= 0

\* ------------------------------------------------------------- properties
ClassNameOf(classNameIndex) == ClassNameList[classNameIndex]
Loaded(className) == classTable[className].kind # "unloaded"
LoadedInterface(className) == classTable[className].kind = "interface"
LoadedClass(className) == classTable[className].kind = "class"
Entries == classRelationshipsHashTable.entries

\* the snippet names two loaded classes, the parent no interface and not
\* the same as or a superclass of the child
ViolatingSnippet(snippet) ==
    LET childClassName == ClassNameOf(snippet[1])
        parentClassName == ClassNameOf(snippet[2])
    IN  /\ LoadedClass(parentClassName)
        /\ Loaded(childClassName)
        /\ parentClassName # childClassName
        /\ parentClassName \notin classTable[childClassName].supers

\* C1: when no allocation fails, process returns BCV_SUCCESS exactly when no
\* snippet of the pass has a loaded non-interface parent and a loaded child
\* that the parent is not the same as or a superclass of; when there is such
\* a snippet it returns BCV_ERR_INTERNAL_ERROR.
C1_ProcessVerdict ==
    (last.op = "process" /\ ~last.oom) =>
        LET violation == \E i \in DOMAIN last.snippets :
                             ViolatingSnippet(last.snippets[i])
        IN  /\ (last.result = BCV_SUCCESS) <=> ~violation
            /\ violation => last.result = BCV_ERR_INTERNAL_ERROR

C1_Witness ==
    /\ last.op = "process"
    /\ ~last.oom
    /\ Len(last.snippets) = 2
    /\ last.result = BCV_ERR_INTERNAL_ERROR
    /\ \E i \in DOMAIN last.snippets : ~ViolatingSnippet(last.snippets[i])

\* the parent list node holds: its class is not loaded, is an interface, or
\* is the same as or a superclass of the child
ParentAccepted(parentClassName, childClassName) ==
    \/ ~Loaded(parentClassName)
    \/ LoadedInterface(parentClassName)
    \/ parentClassName = childClassName
    \/ parentClassName \in classTable[childClassName].supers

\* C2: when no allocation fails, validate returns NULL exactly when the child
\* has no entry, or MUST_BE_INTERFACE is unset or the child is an interface,
\* PARENT_IS_THROWABLE is unset or Throwable is a superclass of the child,
\* and every parent node is unloaded, an interface or a superclass.
C2_ValidateVerdict ==
    (last.op = "validate" /\ ~last.oom) =>
        ((last.result = NULL) <=>
            \/ last.entry = <<>>
            \/ /\ \/ J9RELATIONSHIP_MUST_BE_INTERFACE \notin last.entry[1].flags
                  \/ LoadedInterface(last.child)
               /\ \/ J9RELATIONSHIP_PARENT_CLASS_IS_THROWABLE \notin last.entry[1].flags
                  \/ J9RELATIONSHIP_JAVA_LANG_THROWABLE_STRING
                         \in classTable[last.child].supers
               /\ \A i \in DOMAIN last.entry[1].root :
                      ParentAccepted(last.entry[1].root[i], last.child))

C2_Witness ==
    /\ last.op = "validate"
    /\ ~last.oom
    /\ last.result = NULL
    /\ last.entry # <<>>
    /\ J9RELATIONSHIP_PARENT_CLASS_IS_THROWABLE \in last.entry[1].flags
    /\ Len(last.entry[1].root) = 1

\* C3: a deferred snippet is enforced whichever class loads first: once both
\* classes of a snippet that process deferred are loaded, the parent being a
\* non-interface class that is not the same as or a superclass of the child,
\* some process or validate call has reported a failure.
C3_DeferredEnforced ==
    \A d \in deferred :
        (/\ Loaded(d[1])
         /\ LoadedClass(d[2])
         /\ d[2] # d[1]
         /\ d[2] \notin classTable[d[1]].supers) => failureReported

\* C4: the parents sequence of every entry is non-decreasing by name length
\* from head to tail and holds no name twice.
C4_ParentsOrdered ==
    \A n \in DOMAIN Entries :
        \A i, j \in DOMAIN Entries[n].root :
            i < j => /\ Len(Entries[n].root[i]) <= Len(Entries[n].root[j])
                     /\ Entries[n].root[i] # Entries[n].root[j]

\* a shorter name was recorded after a longer one and sits in front of it
C4_Witness ==
    /\ last.op = "process"
    /\ last.snippets = <<<<1, 3>>, <<1, 2>>>>
    /\ last.result = BCV_SUCCESS
    /\ "A" \in DOMAIN Entries
    /\ Entries["A"].root = <<"B", "CC">>

\* C5: an entry is in the store only if it has a parent node or one of its
\* flags set, also after a record call that failed to allocate.
C5_EntriesHaveObligation ==
    \A n \in DOMAIN Entries :
        Entries[n].root # <<>> \/ Entries[n].flags # {}

\* process hands the snippet to j9bcv_recordClassRelationship
HandedToRecord(snippet) ==
    \/ ~Loaded(ClassNameOf(snippet[2]))
    \/ /\ LoadedClass(ClassNameOf(snippet[2]))
       /\ ~Loaded(ClassNameOf(snippet[1]))

ThrowableParent(snippet) ==
    ClassNameOf(snippet[2]) = J9RELATIONSHIP_JAVA_LANG_THROWABLE_STRING

\* C6: no parents sequence ever holds a node named java/lang/Throwable; a
\* pass that records a relationship to java/lang/Throwable sets
\* PARENT_IS_THROWABLE on the child's entry, and the pass allocates no more
\* nodes than it records relationships to other parents.
C6_ThrowableIsAFlag ==
    /\ [](\A n \in DOMAIN Entries : \A i \in DOMAIN Entries[n].root :
              Entries[n].root[i] # J9RELATIONSHIP_JAVA_LANG_THROWABLE_STRING)
    /\ [][(last'.op = "process" /\ last'.result = BCV_SUCCESS) =>
             LET handed == {s \in {last'.snippets[i] : i \in DOMAIN last'.snippets} :
                               HandedToRecord(s)}
             IN  /\ \A s \in handed : ThrowableParent(s) =>
                        /\ ClassNameOf(s[1]) \in DOMAIN Entries'
                        /\ J9RELATIONSHIP_PARENT_CLASS_IS_THROWABLE
                               \in Entries'[ClassNameOf(s[1])].flags
                 /\ classRelationshipsPool'.numElements
                        - classRelationshipsPool.numElements
                    <= Cardinality({s \in handed : ~ThrowableParent(s)})]_vars

C6_Witness ==
    /\ last.op = "process"
    /\ last.result = BCV_SUCCESS
    /\ last.snippets = <<<<1, 4>>>>
    /\ ~Loaded("A")
    /\ "A" \in DOMAIN Entries
    /\ Entries["A"] = [flags |-> {J9RELATIONSHIP_PARENT_CLASS_IS_THROWABLE},
                       root |-> <<>>]
    /\ classRelationshipsPool.numElements = 0

\* C7: when validate returns NULL the store has no entry for the child after
\* the call and every parent node of its entry is back in the pool.
C7_ValidatedEntryRemoved ==
    [][(last'.op = "validate" /\ last'.result = NULL) =>
          /\ last'.child \notin DOMAIN Entries'
          /\ classRelationshipsPool'.numElements =
                 classRelationshipsPool.numElements
                 - (IF last'.entry = <<>> THEN 0 ELSE Len(last'.entry[1].root))]_vars

C7_Witness ==
    /\ last.op = "validate"
    /\ last.result = NULL
    /\ last.entry # <<>>
    /\ Len(last.entry[1].root) = 2
    /\ last.child \notin DOMAIN Entries
    /\ classRelationshipsPool.numElements = 0

\* the entry keyed by the name has MUST_BE_INTERFACE set
FlaggedInterface(className) ==
    /\ className \in DOMAIN Entries
    /\ J9RELATIONSHIP_MUST_BE_INTERFACE \in Entries[className].flags

C8_FlaggedUnlessAllocationFails ==
    (last.op = "validate" /\ last.entry # <<>>) =>
        \A i \in 1..last.evaluated :
            ~Loaded(last.entry[1].root[i]) =>
                IF last.oom /\ i = last.evaluated
                THEN last.result = last.child
                ELSE FlaggedInterface(last.entry[1].root[i])

C8_FlagKept ==
    [][\A p \in ClassNames :
          (FlaggedInterface(p) /\ classTable'[p].kind = "unloaded" /\ alive')
              => FlaggedInterface(p)']_vars

C8_FlagEnforced ==
    (/\ last.op = "validate"
     /\ last.entry # <<>>
     /\ J9RELATIONSHIP_MUST_BE_INTERFACE \in last.entry[1].flags
     /\ LoadedClass(last.child)) => last.result = last.child

C9_Case(d) ==
    /\ last.op = "validate"
    /\ d[1] = last.child
    /\ ~d[3]
    /\ ~d[4]
    /\ LoadedClass(d[2])
    /\ d[2] # d[1]
    /\ d[2] \notin classTable[d[1]].supers

\* C9 as stated: that validate call returns the parent class.
C9_ReturnsParent ==
    \A d \in deferred : C9_Case(d) => last.result = d[2]

\* a step of the last validate call that comes before the node of the
\* parent has failed, and the call has returned that step's class
C9_EarlierFailure(parentClassName) ==
    LET entry == last.entry[1]
        at == CHOOSE i \in DOMAIN entry.root : entry.root[i] = parentClassName
    IN  \/ /\ J9RELATIONSHIP_MUST_BE_INTERFACE \in entry.flags
           /\ ~LoadedInterface(last.child)
           /\ last.result = last.child
        \/ /\ J9RELATIONSHIP_PARENT_CLASS_IS_THROWABLE \in entry.flags
           /\ J9RELATIONSHIP_JAVA_LANG_THROWABLE_STRING
                  \notin classTable[last.child].supers
           /\ last.result = J9RELATIONSHIP_JAVA_LANG_THROWABLE_STRING
        \/ \E i \in 1..(at - 1) :
               \/ /\ ~ParentAccepted(entry.root[i], last.child)
                  /\ last.result = entry.root[i]
               \/ /\ ~Loaded(entry.root[i])
                  /\ last.oom
                  /\ last.result = last.child

\* C9 as amended: that validate call returns a class: the parent class,
\* unless an earlier step of the validation fails, whose class it returns.
C9_FailsAtFirstFailingStep ==
    \A d \in deferred : C9_Case(d) =>
        /\ last.result # NULL
        /\ last.entry # <<>>
        /\ \E i \in DOMAIN last.entry[1].root : last.entry[1].root[i] = d[2]
        /\ last.result = d[2] \/ C9_EarlierFailure(d[2])

C9_Witness ==
    \E d \in deferred : C9_Case(d) /\ last.result = d[2]

InterfaceParent(snippet) == LoadedInterface(ClassNameOf(snippet[2]))

RecordsParent(snippet) ==
    LET childClassName == ClassNameOf(snippet[1])
        parentClassName == ClassNameOf(snippet[2])
    IN  /\ childClassName \in DOMAIN Entries
        /\ IF parentClassName = J9RELATIONSHIP_JAVA_LANG_THROWABLE_STRING
           THEN J9RELATIONSHIP_PARENT_CLASS_IS_THROWABLE
                    \in Entries[childClassName].flags
           ELSE \E i \in DOMAIN Entries[childClassName].root :
                    Entries[childClassName].root[i] = parentClassName

\* C11: after process returns BCV_SUCCESS, every snippet of the pass whose
\* parent was not loaded, or whose parent was a loaded non-interface class
\* while the child was not loaded, has an entry for its child in the store
\* that records the parent: as a node of the parents sequence, or as the
\* PARENT_IS_THROWABLE flag when the parent is java/lang/Throwable.
C11_DeferredRecorded ==
    (last.op = "process" /\ last.result = BCV_SUCCESS) =>
        \A i \in DOMAIN last.snippets :
            HandedToRecord(last.snippets[i]) => RecordsParent(last.snippets[i])

\* a pass has deferred two parents of equal name length for one child
C11_Witness ==
    /\ last.op = "process"
    /\ last.result = BCV_SUCCESS
    /\ last.snippets = <<<<3, 1>>, <<3, 2>>>>
    /\ ~Loaded("A")
    /\ ~Loaded("B")
    /\ "CC" \in DOMAIN Entries
    /\ Entries["CC"].root = <<"A", "B">>

\* the snippets of the pass in progress
Snippets == classRelationshipSnippetsHashTable.snippets

\* C12: a j9bcv_recordClassRelationshipSnippet call in which no allocation
\* fails leaves the snippet set holding the pairs it held and the pair of the
\* call, its size one larger exactly when the ordered pair was not yet in it;
\* so the size of the set is the number of distinct ordered pairs recorded
\* in the pass, (a, b) and (b, a) counting as two.
C12_SnippetSetSize ==
    [][(last'.op = "recordSnippet" /\ ~last'.oom) =>
          /\ Snippets' = Snippets \cup {last'.snippets[1]}
          /\ Cardinality(Snippets') =
                 Cardinality(Snippets)
                 + (IF last'.snippets[1] \in Snippets THEN 0 ELSE 1)
          /\ last'.added <=> last'.snippets[1] \notin Snippets]_vars

\* the last call has added the reverse of the pair the set held
C12_Witness ==
    /\ last.op = "recordSnippet"
    /\ ~last.oom
    /\ last.added
    /\ last.snippets[1] = <<3, 1>>
    /\ Snippets = {<<1, 3>>, <<3, 1>>}

\* the pairs processClassRelationshipSnippetsUsingCachedData reads from the
\* shared cache's data when it is mapped at the address
Decoded(address) == cachedSnippets(MappedAt(sharedCache, address), address, 0)

\* the names of a snippet of the snippet table
SnippetNames(snippet) == <<ClassNameOf(snippet[1]), ClassNameOf(snippet[2])>>

\* C13: the pairs read back from the data stored for a non-empty snippet
\* table are exactly the (child name, parent name) pairs of the table, each
\* as often as the table holds it, whether the names were placed singly
\* (one snippet), with the array or with the hash table.
C13_RoundTrip ==
    (sharedCache # NoSharedData /\ classRelationshipSnippetsHashTable.allocated) =>
        \A address \in CacheAddresses :
            /\ Len(Decoded(address)) = Cardinality(Snippets)
            /\ \A names \in ClassNames \X ClassNames :
                   Cardinality({i \in DOMAIN Decoded(address) :
                                   Decoded(address)[i] = names})
                   = Cardinality({snippet \in Snippets : SnippetNames(snippet) = names})

\* three snippets, placed with the hash table, one name in three places,
\* have been stored and processed from the cache
C13_Witness ==
    /\ last.op = "processCached"
    /\ Cardinality(Snippets) = 3
    /\ Cardinality(Snippets) > J9RELATIONSHIP_SNIPPET_COUNT_THRESHOLD
    /\ {<<1, 1>>, <<3, 1>>} \subseteq Snippets
    /\ Len(last.snippets) = 3
    /\ \E i \in DOMAIN last.snippets : last.snippets[i] = <<"CC", "A">>

\* the offsets of the self-relative pointers of the stored data
SRPOffsets ==
    {headerSize + i * offsetToNextSRP :
        i \in 0..(2 * ReadMemory(sharedCache.bytes, 0) - 1)}

\* C14: every name reference of the stored data is a distance from the
\* reference itself to a name inside the data's class name section, and the
\* data mapped at any two addresses reads as the same sequence of pairs.
C14_PositionIndependent ==
    sharedCache # NoSharedData =>
        /\ \A offset \in SRPOffsets :
               LET target == offset + ReadMemory(sharedCache.bytes, offset)
               IN  /\ target \in DOMAIN sharedCache.bytes
                   /\ target >= headerSize
                                 + ReadMemory(sharedCache.bytes, 0) * snippetSize
                   /\ target < sharedCache.length
        /\ \A address1, address2 \in CacheAddresses \cup BufferAddresses :
               Decoded(address1) = Decoded(address2)

\* the data written in a buffer at one address has been processed where the
\* cache has mapped it, at the second of its addresses
C14_Witness ==
    /\ last.op = "processCached"
    /\ last.result = BCV_SUCCESS
    /\ snippetsDataDescriptor.address \in CacheAddresses
    /\ \A address \in CacheAddresses : address <= snippetsDataDescriptor.address
    /\ Len(last.snippets) = 2
    /\ last.snippets[1][1] # last.snippets[2][1]

\* C15: the class j9bcv_validateClassRelationships returns, when it is not
\* NULL, has violated a relationship: it is the child, flagged
\* MUST_BE_INTERFACE and no interface; or java/lang/Throwable, the child
\* flagged PARENT_IS_THROWABLE and Throwable no superclass of it; or a loaded
\* non-interface parent of the child's parents sequence that is not the same
\* as or a superclass of the child.  An allocation failure is none of these.
C15_NonNullIsAViolation ==
    (last.op = "validate" /\ last.result # NULL) =>
        /\ last.entry # <<>>
        /\ \/ /\ last.result = last.child
              /\ J9RELATIONSHIP_MUST_BE_INTERFACE \in last.entry[1].flags
              /\ ~LoadedInterface(last.child)
           \/ /\ last.result = J9RELATIONSHIP_JAVA_LANG_THROWABLE_STRING
              /\ J9RELATIONSHIP_PARENT_CLASS_IS_THROWABLE \in last.entry[1].flags
              /\ J9RELATIONSHIP_JAVA_LANG_THROWABLE_STRING
                     \notin classTable[last.child].supers
           \/ /\ \E i \in DOMAIN last.entry[1].root :
                     last.entry[1].root[i] = last.result
              /\ LoadedClass(last.result)
              /\ ~ParentAccepted(last.result, last.child)

\* C16: a process call in which an allocation fails returns
\* BCV_ERR_INSUFFICIENT_MEMORY, never BCV_SUCCESS; the snippet it stopped at
\* is one it handed to j9bcv_recordClassRelationship, and no snippet after it
\* in iteration order has been recorded by the call.
C16_ProcessStopsAtFailedRecord ==
    [][(last'.op = "process" /\ last'.allocFailed) =>
          /\ last'.result = BCV_ERR_INSUFFICIENT_MEMORY
          /\ last'.evaluated \in DOMAIN last'.snippets
          /\ HandedToRecord(last'.snippets[last'.evaluated])
          /\ \A snippet \in SnippetPairs :
                 (/\ \E i \in DOMAIN last'.snippets :
                         i > last'.evaluated /\ last'.snippets[i] = snippet
                  /\ RecordsParent(snippet)')
                     => RecordsParent(snippet)]_vars

\* a pass of two snippets has stopped at the first, the second one a snippet
\* it would have recorded
C16_Witness ==
    /\ last.op = "process"
    /\ last.allocFailed
    /\ Len(last.snippets) = 2
    /\ last.evaluated = 1
    /\ HandedToRecord(last.snippets[2])
    /\ ~RecordsParent(last.snippets[2])

\* C17: when the cache fails (findSharedData answers -1, storeSharedData
\* returns NULL, or the key cannot be generated) the result of fetch and of
\* store is not BCV_ERR_INTERNAL_ERROR, the code with which process reports
\* a relationship violation.
C17_CacheFailureNotAViolation ==
    (last.op \in {"store", "fetch"} /\ last.cacheError # "none") =>
        last.result # BCV_ERR_INTERNAL_ERROR

\* C18: a loaded class that has no entry is one whose validation returned
\* NULL (a failed validation keeps the entry); no operation before teardown
\* makes an entry keyed by such a class exist again, so that every entry is
\* keyed by a class that has not loaded or whose validation failed.
C18_ValidatedEntryStaysAbsent ==
    [][\A className \in LoadableNames :
           (alive /\ Loaded(className) /\ className \notin DOMAIN Entries)
               => className \notin DOMAIN Entries']_vars

\* C20: j9bcv_freeClassRelationshipTableAndPool on a loader that has a table
\* leaves it with no entry and no parent node, its table and its pool
\* absent, whatever entries it held; on a loader with no table it changes
\* neither the table nor the pool.
C20_TeardownFreesAll ==
    [][last'.op = "free" =>
          IF classRelationshipsHashTable.allocated
          THEN /\ ~classRelationshipsHashTable'.allocated
               /\ ~classRelationshipsPool'.allocated
               /\ DOMAIN classRelationshipsHashTable'.entries = {}
               /\ classRelationshipsPool'.numElements = 0
          ELSE /\ classRelationshipsHashTable' = classRelationshipsHashTable
               /\ classRelationshipsPool' = classRelationshipsPool]_vars

\* the loader torn down held an entry although both classes of the only
\* snippet deferred had loaded and a validation had failed
C20_Witness ==
    /\ last.op = "free"
    /\ last.evaluated >= 1
    /\ failureReported
    /\ deferred = {<<"CC", "A", FALSE, FALSE>>}
    /\ Loaded("A")
    /\ Loaded("CC")
    /\ ~classRelationshipsHashTable.allocated
    /\ ~classRelationshipsPool.allocated

RECURSIVE LinkedNodes(_)
\* the number of nodes linked into the parents sequences of the entries
\* keyed by the names
LinkedNodes(classNames) ==
    IF classNames = {}
    THEN 0
    ELSE LET className == CHOOSE n \in classNames : TRUE
         IN  Len(Entries[className].root) + LinkedNodes(classNames \ {className})

C21_TableLifetime ==
    [][/\ last'.op = "validate" =>
              classRelationshipsHashTable'.allocated
                  = classRelationshipsHashTable.allocated
       /\ (classRelationshipsHashTable.allocated /\ last'.op # "free") =>
              classRelationshipsHashTable'.allocated
       /\ (~classRelationshipsHashTable.allocated
              /\ classRelationshipsHashTable'.allocated) =>
              /\ last'.op = "process"
              /\ \E i \in 1..last'.evaluated :
                     HandedToRecord(last'.snippets[i])]_vars

\* validate has removed the only entry and the table is still there
C21_Witness ==
    /\ last.op = "validate"
    /\ last.result = NULL
    /\ last.entry # <<>>
    /\ classRelationshipsHashTable.allocated
    /\ DOMAIN Entries = {}

\* the (child name, parent name) pairs of the pass of a process call, in
\* the order the call walks them
PassNames(call) ==
    IF call.op = "processCached"
    THEN call.snippets
    ELSE [i \in DOMAIN call.snippets |-> SnippetNames(call.snippets[i])]

\* both classes are loaded, the parent no interface and not the same as or
\* a superclass of the child
ViolatingNames(childClassName, parentClassName) ==
    /\ LoadedClass(parentClassName)
    /\ Loaded(childClassName)
    /\ parentClassName # childClassName
    /\ parentClassName \notin classTable[childClassName].supers

\* process hands the pair to j9bcv_recordClassRelationship
HandedNames(childClassName, parentClassName) ==
    \/ ~Loaded(parentClassName)
    \/ LoadedClass(parentClassName) /\ ~Loaded(childClassName)

\* the entry of the child records the parent
RecordsParentOf(childClassName, parentClassName) ==
    /\ childClassName \in DOMAIN Entries
    /\ IF parentClassName = J9RELATIONSHIP_JAVA_LANG_THROWABLE_STRING
       THEN J9RELATIONSHIP_PARENT_CLASS_IS_THROWABLE
                \in Entries[childClassName].flags
       ELSE \E i \in DOMAIN Entries[childClassName].root :
                Entries[childClassName].root[i] = parentClassName

\* C22: a process call, on the local snippet table or on cached data, that
\* returns BCV_ERR_INTERNAL_ERROR has stopped at the first violating
\* snippet of its iteration order: the store has gained no record of a pair
\* that comes only later in the order, and holds a record of every pair
\* before it that the call handed to j9bcv_recordClassRelationship.
C22_ProcessFailsFast ==
    [][(last'.op \in {"process", "processCached"}
            /\ last'.result = BCV_ERR_INTERNAL_ERROR) =>
          /\ last'.evaluated \in DOMAIN last'.snippets
          /\ \A childClassName \in ClassNames, parentClassName \in ClassNames :
                 LET at(i) == PassNames(last')[i] = <<childClassName, parentClassName>>
                 IN  /\ at(last'.evaluated) =>
                            ViolatingNames(childClassName, parentClassName)
                     /\ (\E i \in DOMAIN last'.snippets : i < last'.evaluated /\ at(i)) =>
                            /\ ~ViolatingNames(childClassName, parentClassName)
                            /\ HandedNames(childClassName, parentClassName) =>
                                   RecordsParentOf(childClassName, parentClassName)'
                     /\ (/\ \E i \in DOMAIN last'.snippets : i > last'.evaluated /\ at(i)
                         /\ ~\E i \in DOMAIN last'.snippets : i < last'.evaluated /\ at(i)
                         /\ RecordsParentOf(childClassName, parentClassName)') =>
                            RecordsParentOf(childClassName, parentClassName)]_vars

\* a pass over cached data has recorded its first pair, stopped at the
\* second, a violating one, and left the third, a pair it would have
\* recorded, out of the store
C22_Witness ==
    /\ last.op = "processCached"
    /\ last.result = BCV_ERR_INTERNAL_ERROR
    /\ Len(last.snippets) = 3
    /\ last.evaluated = 2
    /\ RecordsParentOf(last.snippets[1][1], last.snippets[1][2])
    /\ HandedNames(last.snippets[3][1], last.snippets[3][2])
    /\ ~RecordsParentOf(last.snippets[3][1], last.snippets[3][2])

C24_SnippetTableFreed ==
    [][/\ (last'.op = "process" /\ last'.result = BCV_SUCCESS) =>
              /\ ~classRelationshipSnippetsHashTable'.allocated
              /\ Snippets' = {}
       /\ (/\ last.op = "process"
           /\ last.result = BCV_SUCCESS
           /\ last'.op = "recordSnippet") =>
              /\ Snippets' \subseteq {last'.snippets[1]}
              /\ last'.added <=> Snippets' = {last'.snippets[1]}]_vars

\* a pass of two snippets has been processed with success and the next
\* pass has recorded a first snippet, one of the earlier pass
C24_Witness ==
    /\ last.op = "recordSnippet"
    /\ last.added
    /\ Snippets = {last.snippets[1]}
    /\ ~failureReported
    /\ Cardinality(deferred) = 2
    /\ \E d \in deferred : <<d[1], d[2]>> = SnippetNames(last.snippets[1])

\* C25: isRelationshipRecorded(child, parent, loader) returns true exactly
\* when the store holds an entry keyed by the child name whose parents
\* sequence has a node of the parent name.
C25_IsRelationshipRecorded ==
    last.op = "isRelationshipRecorded" =>
        (last.added <=>
            /\ last.snippets[1][1] \in DOMAIN Entries
            /\ \E i \in DOMAIN Entries[last.snippets[1][1]].root :
                   Entries[last.snippets[1][1]].root[i] = last.snippets[1][2])

\* the member the last annotation lookup was made for
LookedUpMember ==
    IF annotationCall.op = "fieldContainsRuntimeAnnotation"
    THEN getFieldShapeFromFieldRef(romClass.romFields, annotationCall.cpIndex)
    ELSE getMethodFromMethodRef(romClass.romMethods, annotationCall.cpIndex)

\* the member was declared with an annotation of the type
DeclaredWith(member, typeName) ==
    \E i \in 1..Len(member.annotations) : member.annotations[i].typeName = typeName

\* C26: fieldContainsRuntimeAnnotation and methodContainsRuntimeAnnotation
\* return TRUE whenever the member's runtime-visible annotation data holds an
\* annotation whose type name is the requested name, an annotation without
\* element-value pairs included, and FALSE when no annotation of the data
\* has that name.
C26_ContainsRuntimeAnnotation ==
    (annotationCall.op # "none" /\ LookedUpMember # NoMember)
        => (annotationCall.result
                <=> DeclaredWith(LookedUpMember, annotationCall.annotationName))

\* the last call is a validate call that found the child's entry flagged
\* J9RELATIONSHIP_MUST_BE_INTERFACE with the child loaded as a class
FlaggedInterfaceIsClass(call, ct) ==
    /\ call.op = "validate"
    /\ call.entry # <<>>
    /\ J9RELATIONSHIP_MUST_BE_INTERFACE \in call.entry[1].flags
    /\ ct[call.child].kind = "class"

\* C27: if the child's entry has MUST_BE_INTERFACE set and the loaded child
\* is not an interface, validate returns the child class itself, whatever the
\* entry's PARENT_IS_THROWABLE flag and parents are, and leaves the store as
\* it was: no entry is created, flagged or removed, no node is released and
\* no parent is looked up.
C27_FlaggedInterfaceReturnsChild ==
    [][FlaggedInterfaceIsClass(last', classTable') =>
          /\ last'.result = last'.child
          /\ last'.evaluated = 0
          /\ ~last'.oom
          /\ classRelationshipsHashTable' = classRelationshipsHashTable
          /\ classRelationshipsPool' = classRelationshipsPool]_vars

\* such a call, for an entry with a parent that is not loaded and has no
\* entry of its own, which the walk of the parents would have created
C27_Witness ==
    /\ FlaggedInterfaceIsClass(last, classTable)
    /\ \E i \in DOMAIN last.entry[1].root :
           /\ ~Loaded(last.entry[1].root[i])
           /\ last.entry[1].root[i] \notin DOMAIN Entries
    /\ last.result = last.child

\* the first node of the parents sequence whose class is loaded, is no
\* interface and is not the same as or a superclass of the child: 0 if none
FirstRefusedParent(root, childClassName) ==
    IF \E i \in DOMAIN root : ~ParentAccepted(root[i], childClassName)
    THEN CHOOSE i \in DOMAIN root :
             /\ ~ParentAccepted(root[i], childClassName)
             /\ \A j \in 1..(i - 1) : ParentAccepted(root[j], childClassName)
    ELSE 0

\* C28: when validate fails, the class it returns is fixed by the first
\* failing step: the child class for a violated MUST_BE_INTERFACE; otherwise
\* java/lang/Throwable for a violated PARENT_IS_THROWABLE; otherwise the
\* first parent, in the order of the parents sequence, that is loaded, is no
\* interface and is not the same as or a superclass of the child.
C28_FailedClassOfFirstFailingStep ==
    (last.op = "validate" /\ last.result # NULL) =>
        /\ last.entry # <<>>
        /\ IF /\ J9RELATIONSHIP_MUST_BE_INTERFACE \in last.entry[1].flags
              /\ ~LoadedInterface(last.child)
           THEN last.result = last.child
           ELSE IF /\ J9RELATIONSHIP_PARENT_CLASS_IS_THROWABLE \in last.entry[1].flags
                   /\ J9RELATIONSHIP_JAVA_LANG_THROWABLE_STRING
                          \notin classTable[last.child].supers
           THEN last.result = J9RELATIONSHIP_JAVA_LANG_THROWABLE_STRING
           ELSE /\ FirstRefusedParent(last.entry[1].root, last.child) # 0
                /\ last.result =
                       last.entry[1].root[FirstRefusedParent(last.entry[1].root,
                                                             last.child)]

\* the unloaded parents the validate call has met: the nodes the walk has
\* looked at whose class is not loaded
MetUnloadedParents(call, ct) ==
    IF call.entry = <<>> THEN {}
    ELSE {call.entry[1].root[i] : i \in
             {j \in DOMAIN call.entry[1].root :
                 j <= call.evaluated /\ ct[call.entry[1].root[j]].kind = "unloaded"}}

\* C29: when validate(child) meets an unloaded parent it changes the entry
\* of that parent only by setting MUST_BE_INTERFACE: an entry that exists
\* keeps its parents sequence and its PARENT_IS_THROWABLE flag, an entry that
\* is created has an empty parents sequence and no other flag, and the
\* entries of names other than the child and the unloaded parents met are
\* left as they were.
C29_UnloadedParentOnlyFlagged ==
    [][(last'.op = "validate" /\ ops' # ops) =>
          \A n \in ClassNames \ {last'.child} :
              IF n \in MetUnloadedParents(last', classTable')
              THEN IF n \in DOMAIN Entries
                   THEN /\ n \in DOMAIN Entries'
                        /\ Entries'[n].root = Entries[n].root
                        /\ Entries'[n].flags =
                               Entries[n].flags \cup {J9RELATIONSHIP_MUST_BE_INTERFACE}
                   ELSE n \in DOMAIN Entries' =>
                            Entries'[n] = [flags |-> {J9RELATIONSHIP_MUST_BE_INTERFACE},
                                           root |-> <<>>]
              ELSE /\ (n \in DOMAIN Entries') = (n \in DOMAIN Entries)
                   /\ n \in DOMAIN Entries => Entries'[n] = Entries[n]]_vars

\* a validate call has met an unloaded parent whose entry has parents of its
\* own and has had MUST_BE_INTERFACE set
C29_Witness ==
    /\ last.op = "validate"
    /\ \E n \in MetUnloadedParents(last, classTable) :
           /\ n \in DOMAIN Entries
           /\ Entries[n].root # <<>>
           /\ J9RELATIONSHIP_MUST_BE_INTERFACE \in Entries[n].flags

\* C30: when validate returns a class, the child's entry is still in the
\* store with the parents sequence it had before the call, none of its nodes
\* has gone back to the pool, and every unloaded parent the walk has passed
\* before the node it failed at has an entry with MUST_BE_INTERFACE set.
C30_FailedValidationKeepsEntry ==
    [][(last'.op = "validate" /\ ops' # ops /\ last'.result # NULL) =>
          /\ last'.entry # <<>>
          /\ last'.child \in DOMAIN Entries
          /\ last'.child \in DOMAIN Entries'
          /\ Entries'[last'.child].root = Entries[last'.child].root
          /\ classRelationshipsPool' = classRelationshipsPool
          /\ \A i \in 1..(last'.evaluated - 1) :
                 classTable'[last'.entry[1].root[i]].kind = "unloaded" =>
                     /\ last'.entry[1].root[i] \in DOMAIN Entries'
                     /\ J9RELATIONSHIP_MUST_BE_INTERFACE
                            \in Entries'[last'.entry[1].root[i]].flags]_vars

\* a validate call has failed at the second node of the child's parents
\* sequence after passing an unloaded parent, whose entry is flagged
C30_Witness ==
    /\ last.op = "validate"
    /\ last.evaluated = 2
    /\ last.result = last.entry[1].root[2]
    /\ ~Loaded(last.entry[1].root[1])
    /\ J9RELATIONSHIP_MUST_BE_INTERFACE \in Entries[last.entry[1].root[1]].flags
    /\ Entries[last.child].root = last.entry[1].root

\* the parent names the successful record calls have given for the child
RecordedParents(childClassName) ==
    {d[2] : d \in {e \in deferred : e[1] = childClassName}}

\* C31: the store a sequence of successful j9bcv_recordClassRelationship
\* calls produces depends only on the set of (child, parent) pairs recorded:
\* whatever the order of the calls and however often a call is repeated, a
\* child has an entry exactly when a pair names it, PARENT_IS_THROWABLE is
\* its only flag and is set exactly when java/lang/Throwable is one of its
\* parents, and its parents sequence holds each other parent name once.
C31_StoreOfRecordedPairs ==
    ~failureReported =>
        \A childClassName \in ClassNames :
            LET parents == RecordedParents(childClassName)
                nodes == parents \ {J9RELATIONSHIP_JAVA_LANG_THROWABLE_STRING}
            IN  IF parents = {}
                THEN childClassName \notin DOMAIN Entries
                ELSE /\ childClassName \in DOMAIN Entries
                     /\ Entries[childClassName].flags =
                            IF J9RELATIONSHIP_JAVA_LANG_THROWABLE_STRING \in parents
                            THEN {J9RELATIONSHIP_PARENT_CLASS_IS_THROWABLE}
                            ELSE {}
                     /\ {Entries[childClassName].root[i] :
                            i \in DOMAIN Entries[childClassName].root} = nodes
                     /\ Len(Entries[childClassName].root) = Cardinality(nodes)

\* four successful calls have recorded three pairs of one child, one of
\* them twice, the longer parent name before a shorter one
C31_Witness ==
    /\ ~failureReported
    /\ ops = 4
    /\ \E childClassName \in ClassNames :
           /\ Cardinality(RecordedParents(childClassName)) = 3
           /\ Cardinality(deferred) = 3
           /\ Len(Entries[childClassName].root) = 2
           /\ Len(Entries[childClassName].root[1])
                  < Len(Entries[childClassName].root[2])
           /\ last.snippets[1][2] = 2

\* C32: in every state the elements taken from the pool are the nodes linked
\* into the parents sequences of the entries, each into one: the pool's
\* count is the sum of the lengths of the sequences, and nodes are linked
\* only while the pool exists.  This holds after a node allocation that
\* failed, after a validation that succeeded and after the teardown.
C32_PoolCountsLinkedNodes ==
    /\ classRelationshipsPool.numElements = LinkedNodes(DOMAIN Entries)
    /\ ~classRelationshipsPool.allocated => LinkedNodes(DOMAIN Entries) = 0

\* a pass has failed to allocate the node of a new parent for a child whose
\* entry holds a node already
C32_Witness ==
    /\ last.op = "process"
    /\ last.oom
    /\ last.evaluated = 1
    /\ classRelationshipsPool.allocated
    /\ classRelationshipsPool.numElements = 1
    /\ \E childClassName \in {ClassNameOf(last.snippets[1][1])},
          parentClassName \in {ClassNameOf(last.snippets[1][2])} :
           /\ parentClassName # J9RELATIONSHIP_JAVA_LANG_THROWABLE_STRING
           /\ ~Loaded(parentClassName)
           /\ childClassName \in DOMAIN Entries
           /\ Len(Entries[childClassName].root) = 1
           /\ Entries[childClassName].root[1] # parentClassName

\* C33: in every state the loader's relationship hash table and its node
\* pool are both allocated or both absent, also after an allocation has
\* failed inside the lazy allocation of the first record call, so that no
\* later record call runs with a table and no pool.
C33_TableAndPoolTogether ==
    classRelationshipsHashTable.allocated = classRelationshipsPool.allocated

\* the list is ordered by name length and holds no name twice
ParentsWellFormed(root) ==
    \A i, j \in DOMAIN root :
        i < j => Len(root[i]) <= Len(root[j]) /\ root[i] # root[j]

\* C34: record calls for one child that run with no lock and interleave
\* between the walk and the splice reach a list that holds a name twice or
\* is not ordered by name length; the list of a child goes from well formed
\* to ill formed only in the splice of a thread whose walk went through a
\* list that is no longer the child's list.
C34_IllFormedBySplicedStaleWalk ==
    [][\A n \in ClassNames :
          (/\ n \in DOMAIN Entries
           /\ ParentsWellFormed(Entries[n].root)
           /\ ~ParentsWellFormed(classRelationshipsHashTable'.entries[n].root))
          => \E t \in Threads :
                 /\ threads[t].pc = "splice"
                 /\ threads'[t].pc # "splice"
                 /\ threads[t].seen # Entries[n].root]_vars

\* two calls have linked their nodes and the list of "A" has the longer name
\* in front of the shorter one
C34_Witness ==
    /\ ops = 2
    /\ "A" \in DOMAIN Entries
    /\ Entries["A"].root = <<"CC", "B">>

\* the offsets of the J9UTF8s in the class name section of the stored data
ClassNameOffsets ==
    {offset \in DOMAIN sharedCache.bytes :
        offset >= headerSize + ReadMemory(sharedCache.bytes, 0) * snippetSize}

\* C35: the data stored for a non-empty snippet table holds each class name
\* once: no two J9UTF8s of its class name section hold the same name, and
\* two name references that lead to the same name lead to the same J9UTF8,
\* also when the name is the child and the parent of one snippet.
C35_NamesWrittenOnce ==
    sharedCache # NoSharedData =>
        /\ \A offset1, offset2 \in ClassNameOffsets :
               sharedCache.bytes[offset1] = sharedCache.bytes[offset2]
               => offset1 = offset2
        /\ \A srp1, srp2 \in SRPOffsets :
               LET target1 == srp1 + ReadMemory(sharedCache.bytes, srp1)
                   target2 == srp2 + ReadMemory(sharedCache.bytes, srp2)
               IN  J9UTF8At(sharedCache.bytes, target1) = J9UTF8At(sharedCache.bytes, target2)
                   => target1 = target2

\* C36: the header of the data stored for a snippet table holds the number
\* of snippets of the table, the data reads back as that many pairs where
\* ever it is mapped, and the i-th pair read is the pair of names of the
\* i-th snippet the walk of the table has written.
C36_DecodedInWrittenOrder ==
    (last.op = "store" /\ sharedCache # NoSharedData) =>
        /\ ReadMemory(sharedCache.bytes, 0) = Cardinality(Snippets)
        /\ ReadMemory(sharedCache.bytes, 0) = Len(last.snippets)
        /\ \A address \in CacheAddresses :
               /\ Len(Decoded(address)) = ReadMemory(sharedCache.bytes, 0)
               /\ \A i \in DOMAIN last.snippets :
                      Decoded(address)[i] = SnippetNames(last.snippets[i])

\* three snippets with a name in three places have been written, the snippet
\* with the longer child name first
C36_Witness ==
    /\ last.op = "store"
    /\ sharedCache # NoSharedData
    /\ Len(last.snippets) = 3
    /\ last.snippets[1] = <<3, 1>>
    /\ last.snippets[3] = <<1, 1>>

\* the walks of the snippet table that visit the snippets in the order the
\* stored data holds them
WrittenOrders(address) ==
    {order \in IterationOrders(Snippets) :
        [i \in DOMAIN order |-> SnippetNames(order[i])] = Decoded(address)}

\* C38 as stated: with the stored data of a snippet table and the table side
\* by side, the loop over the cached data and the loop over the table, in
\* whatever order the walk of the table visits its snippets, started from
\* the same relationship store with the same classes loaded and with no
\* allocation failing, end with the same reasonCode and the same store.
C38_CachedPathAsAnyLocalWalk ==
    (sharedCache # NoSharedData /\ classRelationshipSnippetsHashTable.allocated) =>
        \A address \in CacheAddresses, order \in IterationOrders(Snippets) :
            \E cached \in {processCachedSnippets(Decoded(address), 1, Store,
                                                 classTable, 0, 0, {})},
               local \in {processSnippets(order, 1, Store, classTable, 0, 0, {})} :
                /\ cached.reasonCode = local.reasonCode
                /\ cached.st = local.st

\* C38, amended: with the stored data of a snippet table and the table side
\* by side, the loop over the cached data and the loop over the table that
\* visits the snippets in the order the data holds them, started from the
\* same relationship store with the same classes loaded and with an
\* allocation failing at the same place or nowhere, end with the same
\* reasonCode and the same store after as many snippets.
C38_CachedPathAsLocalPath ==
    (sharedCache # NoSharedData /\ classRelationshipSnippetsHashTable.allocated) =>
        \A address \in CacheAddresses :
            /\ WrittenOrders(address) # {}
            /\ \A order \in WrittenOrders(address), f \in 0..MaxFailAt :
                   \E cached \in {processCachedSnippets(Decoded(address), 1, Store,
                                                        classTable, 0, f, {})},
                      local \in {processSnippets(order, 1, Store, classTable,
                                                 0, f, {})} :
                       /\ cached.reasonCode = local.reasonCode
                       /\ cached.st = local.st
                       /\ cached.evaluated = local.evaluated

\* the cached data of two snippets has been processed: a relationship was
\* deferred into the store and the pass went through both snippets
C38_Witness ==
    /\ last.op = "processCached"
    /\ last.result = BCV_SUCCESS
    /\ last.evaluated = 2
    /\ sharedCache # NoSharedData
    /\ classRelationshipSnippetsHashTable.allocated
    /\ Cardinality(Snippets) = 2
    /\ classRelationshipsPool.numElements >= 1

\* C37: for class names of every length a J9UTF8 can hold, 0 to 65535, the
\* bytes storeToDataBuffer writes into the class name section of the buffer
\* (for each name written its length, one terminator and two length bytes,
\* the copy the hash table strategy writes before its lookup included) end
\* within the size getTotalUTF8Size has computed for the section.
C37_WrittenWithinTotalUTF8Size ==
    utf8Area.op = "store" => utf8Area.written <= utf8Area.utf8SizeTotal

====
